---- MODULE Spec2Model ----
(***************************************************************************)
(* A model of the universal-weave crate: the tree-based DependentWeave     *)
(* (src/src/dependent.rs) and the DAG-based IndependentWeave               *)
(* (src/src/independent.rs), with the node contents of tapestry-weave v1.  *)
(*                                                                         *)
(* IndexSet values are sequences without repetitions (insertion order is   *)
(* observable), HashSet values are sets, HashMap values are functions on   *)
(* the set of keys.                                                        *)
(***************************************************************************)
EXTENDS Integers, Sequences, FiniteSets, TLC

\* flavor names the object the calls are made on; iw and dw are the
\* IndependentWeave and the DependentWeave; ops counts the calls made;
\* content is a payload with the results of its split and merge; codec is a
\* snapshot envelope on its way through to_bytes and from_bytes; tw_active
\* is the `active` field of a v1 TapestryWeave, whose `weave` field is iw
VARIABLES flavor, iw, dw, ops, content, codec, tw_active

vars == <<flavor, iw, dw, ops, content, codec, tw_active>>

(***************************************************************************)
(* Bounds of the model.                                                    *)
(***************************************************************************)
NumIds == 3

\* The number of calls made on a weave
MaxOps == 3

\* The largest split offset a caller tries
MaxAt == 2

Ids == 1..NumIds

\* Option<K>::None
None == 0

(***************************************************************************)
(* indexmap::IndexSet as a sequence without repetitions.                   *)
(***************************************************************************)
Range(s) == {s[i] : i \in 1..Len(s)}

Contains(s, x) == \E i \in 1..Len(s) : s[i] = x

\* IndexSet::insert: appends unless already present
Insert(s, x) == IF Contains(s, x) THEN s ELSE Append(s, x)

\* IndexSet::shift_remove: removes, keeping the order of the rest
ShiftRemove(s, x) == SelectSeq(s, LAMBDA y : y # x)

\* IndexSet::get_index_of (0 when absent; sequences are 1-based)
IndexOf(s, x) == IF Contains(s, x) THEN CHOOSE i \in 1..Len(s) : s[i] = x ELSE 0

\* IndexSet::shift_remove_index
ShiftRemoveIndex(s, i) == SubSeq(s, 1, i - 1) \o SubSeq(s, i + 1, Len(s))

\* IndexSet::from_iter over a slice: first occurrences, in order
RECURSIVE FromIter(_)
FromIter(s) == IF s = <<>> THEN <<>>
               ELSE Insert(FromIter(SubSeq(s, 1, Len(s) - 1)), s[Len(s)])

\* The replacement used by split_node and merge_with_parent on a child's
\* parents: replace_index at the old entry's index, shift_remove_index when
\* the new value already sits at another index, insert when there is no old
\* entry.
ReplaceParent(s, old, new) ==
    LET index == IndexOf(s, old) IN
    IF index # 0
    THEN IF Contains(s, new) /\ IndexOf(s, new) # index
         THEN ShiftRemoveIndex(s, index)
         ELSE [s EXCEPT ![index] = new]
    ELSE Insert(s, new)

\* All sequences without repetitions over a set (the orders of an IndexSet)
RECURSIVE SeqsOver(_)
SeqsOver(S) == IF S = {} THEN {<<>>}
               ELSE {<<>>} \cup UNION {{<<x>> \o t : t \in SeqsOver(S \ {x})} : x \in S}

Perms(s) == {t \in SeqsOver(Range(s)) : Len(t) = Len(s)}

\* HashMap::remove
RemoveKey(f, k) == [x \in (DOMAIN f) \ {k} |-> f[x]]

\* HashMap::insert
InsertKey(f, k, v) == [x \in (DOMAIN f) \cup {k} |-> IF x = k THEN v ELSE f[x]]

(***************************************************************************)
(* Node contents: tapestry-weave v1 InnerNodeContent.                      *)
(***************************************************************************)
One(x) == [tag |-> "One", value |-> x]

Two(l, r) == [tag |-> "Two", left |-> l, right |-> r]

Snippet(b) == [kind |-> "Snippet", data |-> b]

Link(b) == [kind |-> "Link", data |-> b]

\* Tokens(Vec<InnerNodeToken>): data is a sequence of tokens
Tokens(t) == [kind |-> "Tokens", data |-> t]

InnerNodeToken(bytes, metadata, modified) ==
    [bytes |-> bytes, metadata |-> metadata, modified |-> modified]

\* tokens.iter().map(|token| token.bytes.len()).sum()
RECURSIVE SumLen(_)
SumLen(tokens) ==
    IF tokens = <<>> THEN 0 ELSE Len(tokens[1].bytes) + SumLen(Tail(tokens))

\* The find_map of split over the tokens from index i on: the index of the
\* first token that ends after `at` (0 when there is none) and the value of
\* content_index when the search stops
RECURSIVE FindLocation(_, _, _, _)
RECURSIVE FindLocation_NoAdvance(_, _, _, _)
\* FindLocation that does not add the lengths of the tokens it passes
FindLocation_NoAdvance(tokens, i, content_index, at) ==
    IF i > Len(tokens) THEN [location |-> 0, content_index |-> content_index]
    ELSE IF content_index + Len(tokens[i].bytes) > at
    THEN [location |-> i, content_index |-> content_index]
    ELSE FindLocation_NoAdvance(tokens, i + 1, content_index, at)

FindLocation(tokens, i, content_index, at) ==
    IF i > Len(tokens) THEN [location |-> 0, content_index |-> content_index]
    ELSE IF content_index + Len(tokens[i].bytes) > at
    THEN [location |-> i, content_index |-> content_index]
    ELSE FindLocation(tokens, i + 1, content_index + Len(tokens[i].bytes), at)

InnerNodeContent_split(c, at) ==
    IF at = 0 THEN One(c)
    ELSE IF c.kind = "Snippet"
    THEN IF Len(c.data) <= at THEN One(c)
         ELSE Two(Snippet(SubSeq(c.data, 1, at)),
                  Snippet(SubSeq(c.data, at + 1, Len(c.data))))
    ELSE IF c.kind = "Tokens"
    THEN IF SumLen(c.data) <= at THEN One(c)
         ELSE LET f == FindLocation(c.data, 1, 0, at) IN
              IF f.location = 0 THEN One(c)
              ELSE LET left == SubSeq(c.data, 1, f.location - 1)
                       right == SubSeq(c.data, f.location, Len(c.data))
                       left_token == SubSeq(right[1].bytes, 1, at - f.content_index)
                       right_token == SubSeq(right[1].bytes, at - f.content_index + 1,
                                             Len(right[1].bytes))
                   IN IF left_token # <<>>
                      THEN Two(Tokens(Append(left, InnerNodeToken(left_token,
                                                                  right[1].metadata, TRUE))),
                               Tokens([right EXCEPT ![1].modified = TRUE,
                                                    ![1].bytes = right_token]))
                      ELSE Two(Tokens(left), Tokens([right EXCEPT ![1].bytes = right_token]))
    ELSE One(c)

\* InnerNodeContent_merge that appends the left payload to the right one
InnerNodeContent_merge_Swapped(a, b) ==
    IF a.kind = "Snippet" /\ b.kind = "Snippet"
    THEN One(Snippet(b.data \o a.data))
    ELSE IF a.kind = "Tokens" /\ b.kind = "Tokens"
    THEN One(Tokens(b.data \o a.data))
    ELSE Two(a, b)

InnerNodeContent_merge(a, b) ==
    IF a.kind = "Snippet" /\ b.kind = "Snippet"
    THEN One(Snippet(a.data \o b.data))
    ELSE IF a.kind = "Tokens" /\ b.kind = "Tokens"
    THEN One(Tokens(a.data \o b.data))
    ELSE Two(a, b)

\* tokens.iter().flat_map(|token| token.bytes.clone()).collect()
RECURSIVE FlatBytes(_)
FlatBytes(tokens) ==
    IF tokens = <<>> THEN <<>> ELSE tokens[1].bytes \o FlatBytes(Tail(tokens))

InnerNodeContent_as_bytes(c) ==
    IF c.kind = "Snippet" THEN c.data
    ELSE IF c.kind = "Tokens" THEN FlatBytes(c.data)
    ELSE <<>>

(***************************************************************************)
(* Node contents of tapestry-weave v0: InnerNodeContent is Snippet or      *)
(* Tokens, and a token is the pair (bytes, metadata).                      *)
(***************************************************************************)
v0_Token(bytes, metadata) == [bytes |-> bytes, metadata |-> metadata]

v0_InnerNodeContent_split(c, at) ==
    IF at = 0 THEN One(c)
    ELSE IF c.kind = "Snippet"
    THEN IF Len(c.data) <= at THEN One(c)
         ELSE Two(Snippet(SubSeq(c.data, 1, at)),
                  Snippet(SubSeq(c.data, at + 1, Len(c.data))))
    ELSE IF SumLen(c.data) <= at THEN One(c)
    ELSE LET f == FindLocation(c.data, 1, 0, at) IN
         IF f.location = 0 THEN One(c)
         ELSE LET left == SubSeq(c.data, 1, f.location - 1)
                  right == SubSeq(c.data, f.location, Len(c.data))
                  left_token == SubSeq(right[1].bytes, 1, at - f.content_index)
                  right_token == SubSeq(right[1].bytes, at - f.content_index + 1,
                                        Len(right[1].bytes))
              IN Two(Tokens(IF left_token # <<>>
                            THEN Append(left, v0_Token(left_token, right[1].metadata))
                            ELSE left),
                     Tokens([right EXCEPT ![1].bytes = right_token]))

v0_InnerNodeContent_merge(a, b) ==
    IF a.kind = "Snippet" /\ b.kind = "Snippet"
    THEN One(Snippet(a.data \o b.data))
    ELSE IF a.kind = "Tokens" /\ b.kind = "Tokens"
    THEN One(Tokens(a.data \o b.data))
    ELSE Two(a, b)

v0_InnerNodeContent_as_bytes(c) ==
    IF c.kind = "Snippet" THEN c.data ELSE FlatBytes(c.data)

(***************************************************************************)
(* Node contents of tapestry-weave v1: NodeContent.                        *)
(***************************************************************************)

NodeContent_split(c, at) ==
    LET r == InnerNodeContent_split(c.content, at) IN
    IF r.tag = "Two"
    THEN Two([c EXCEPT !.content = r.left, !.modified = TRUE],
             [modified |-> TRUE, content |-> r.right,
              metadata |-> c.metadata, creator |-> c.creator])
    ELSE One([c EXCEPT !.content = r.value])

NodeContent_merge(a, b) ==
    IF a.metadata # b.metadata \/ a.creator # b.creator THEN Two(a, b)
    ELSE LET r == InnerNodeContent_merge(a.content, b.content) IN
         IF r.tag = "Two"
         THEN Two([a EXCEPT !.content = r.left], [b EXCEPT !.content = r.right])
         ELSE One([a EXCEPT !.content = r.value, !.modified = TRUE])

\* NodeContent::is_mergeable_with, with InnerNodeContent::is_mergeable_with:
\* two snippets or two token lists, never a link
NodeContent_is_mergeable_with(a, b) ==
    IF a.metadata # b.metadata \/ a.creator # b.creator THEN FALSE
    ELSE \/ a.content.kind = "Snippet" /\ b.content.kind = "Snippet"
         \/ a.content.kind = "Tokens" /\ b.content.kind = "Tokens"

NewContent(inner) == [modified |-> FALSE, content |-> inner, metadata |-> 0, creator |-> None]

\* The contents a caller hands to add_node in this model: a snippet of two
\* bytes, which splits at 1 and merges with another snippet, and a link,
\* which neither splits nor merges
SnippetContents == NewContent(Snippet(<<1, 1>>))

LinkContents == NewContent(Link(<<>>))

\* The nodes a caller hands to add_node in this model, before it names their
\* id, parents and children: each flag and each kind of contents occurs set
\* and unset
InputNodes ==
    {[active |-> FALSE, bookmarked |-> FALSE, contents |-> SnippetContents],
     [active |-> TRUE, bookmarked |-> FALSE, contents |-> SnippetContents],
     [active |-> FALSE, bookmarked |-> TRUE, contents |-> LinkContents]}

(***************************************************************************)
(* IndependentWeave (DAG).  A weave value W is the record                  *)
(* [nodes, roots, active, bookmarked]; a node is the record                *)
(* [id, from, to, active, bookmarked, contents].                           *)
(***************************************************************************)
EmptyWeave == [nodes |-> <<>>, roots |-> <<>>, active |-> {}, bookmarked |-> <<>>]

IndependentNode(id, from, to, active, bookmarked, contents) ==
    [id |-> id, from |-> from, to |-> to, active |-> active,
     bookmarked |-> bookmarked, contents |-> contents]

IndependentNode_validate(node) ==
    /\ Range(node.from) \cap Range(node.to) = {}
    /\ ~Contains(node.from, node.id)
    /\ ~Contains(node.to, node.id)

\* roots other than the node itself when it has no parents, else its parents
all_parent_ids_or_roots(W, node) ==
    IF node.from = <<>> THEN ShiftRemove(W.roots, node.id) ELSE node.from

\* flat_map over a sequence of parents of their children other than `self`
RECURSIVE ChildrenOfAll(_, _, _)
ChildrenOfAll(W, parents, self) ==
    IF parents = <<>> THEN <<>>
    ELSE (IF parents[1] \in DOMAIN W.nodes
          THEN ShiftRemove(W.nodes[parents[1]].to, self) ELSE <<>>)
         \o ChildrenOfAll(W, Tail(parents), self)

sibling_ids_from_all_parents_including_roots(W, node) ==
    IF node.from = <<>> THEN ShiftRemove(W.roots, node.id)
    ELSE ChildrenOfAll(W, node.from, node.id)

RECURSIVE update_removed_child_activity(_, _)
RECURSIVE RemovedChildren(_, _)
update_removed_child_activity(W, id) ==
    IF id \notin DOMAIN W.nodes THEN W
    ELSE LET node == W.nodes[id] IN
         IF ~node.active THEN W
         ELSE IF \E parent \in Range(node.from) : parent \in W.active THEN W
         ELSE RemovedChildren([W EXCEPT !.nodes[id].active = FALSE,
                                        !.active = @ \ {node.id}], node.to)

\* for child in &children { self.update_removed_child_activity(child); }
RemovedChildren(W, children) ==
    IF children = <<>> THEN W
    ELSE RemovedChildren(update_removed_child_activity(W, children[1]), Tail(children))

\* The result of update_node_activity_in_place_inner: the weave, the
\* scratchpad_list and the returned boolean.
RECURSIVE update_node_activity_in_place_inner(_, _, _, _, _)
RECURSIVE DeactivateSiblings(_, _, _)
\* The second half of update_node_activity_in_place_inner: the flag and the
\* active set, then (at the start call) the pass over the scratchpad.
SetActivityFlag(W, sp, id, value, start) ==
    IF id \notin DOMAIN W.nodes THEN [w |-> W, sp |-> sp, ret |-> FALSE]
    ELSE LET nid == W.nodes[id].id
             W1 == [W EXCEPT !.nodes[id].active = value,
                             !.active = IF value THEN @ \cup {nid} ELSE @ \ {nid}]
         IN [w |-> IF start THEN RemovedChildren(W1, sp) ELSE W1, sp |-> sp, ret |-> TRUE]

\* update_node_activity_in_place_inner that counts the node's own parents (or
\* the other roots) among the siblings to deactivate
update_node_activity_in_place_inner_DeactivatesParents(W, sp, id, value, start) ==
    IF id \notin DOMAIN W.nodes THEN SetActivityFlag(W, sp, id, value, start)
    ELSE LET node == W.nodes[id] IN
         IF node.active = value THEN [w |-> W, sp |-> sp, ret |-> TRUE]
         ELSE LET sp0 == IF start THEN <<>> ELSE sp IN
              IF value
              THEN LET has_active_parents ==
                           \E parent \in Range(all_parent_ids_or_roots(W, node)) :
                               parent \in W.active
                       siblings ==
                           SelectSeq(all_parent_ids_or_roots(W, node)
                                       \o sibling_ids_from_all_parents_including_roots(W, node),
                                     LAMBDA sibling : /\ sibling \in W.active
                                                      /\ ~Contains(node.to, sibling))
                       r == IF has_active_parents
                            THEN DeactivateSiblings(W, sp0, siblings)
                            ELSE IF node.from # <<>>
                            THEN update_node_activity_in_place_inner(W, sp0, node.from[1],
                                                                     TRUE, FALSE)
                            ELSE [w |-> W, sp |-> sp0, ret |-> TRUE]
                   IN SetActivityFlag(r.w, r.sp, id, value, start)
              ELSE SetActivityFlag(W, sp0 \o node.to, id, value, start)

update_node_activity_in_place_inner(W, sp, id, value, start) ==
    IF id \notin DOMAIN W.nodes THEN SetActivityFlag(W, sp, id, value, start)
    ELSE LET node == W.nodes[id] IN
         IF node.active = value THEN [w |-> W, sp |-> sp, ret |-> TRUE]
         ELSE LET sp0 == IF start THEN <<>> ELSE sp IN
              IF value
              THEN LET has_active_parents ==
                           \E parent \in Range(all_parent_ids_or_roots(W, node)) :
                               parent \in W.active
                       siblings ==
                           SelectSeq(sibling_ids_from_all_parents_including_roots(W, node),
                                     LAMBDA sibling : /\ sibling \in W.active
                                                      /\ ~Contains(node.from, sibling)
                                                      /\ ~Contains(node.to, sibling))
                       r == IF has_active_parents
                            THEN DeactivateSiblings(W, sp0, siblings)
                            ELSE IF node.from # <<>>
                            THEN update_node_activity_in_place_inner(W, sp0, node.from[1],
                                                                     TRUE, FALSE)
                            ELSE [w |-> W, sp |-> sp0, ret |-> TRUE]
                   IN SetActivityFlag(r.w, r.sp, id, value, start)
              ELSE SetActivityFlag(W, sp0 \o node.to, id, value, start)

\* for sibling in siblings { self.update_node_activity_in_place_inner(&sibling, false, false); }
DeactivateSiblings(W, sp, siblings) ==
    IF siblings = <<>> THEN [w |-> W, sp |-> sp, ret |-> TRUE]
    ELSE LET r == update_node_activity_in_place_inner(W, sp, siblings[1], FALSE, FALSE)
         IN DeactivateSiblings(r.w, r.sp, Tail(siblings))

update_node_activity_in_place(W, id, value) ==
    LET r == update_node_activity_in_place_inner(W, <<>>, id, value, TRUE)
    IN [w |-> r.w, ret |-> r.ret]

\* for x in ids { self.update_node_activity_in_place(x, value); }
RECURSIVE UpdateEach(_, _, _)
UpdateEach(W, ids, value) ==
    IF ids = <<>> THEN W
    ELSE UpdateEach(update_node_activity_in_place(W, ids[1], value).w, Tail(ids), value)

RECURSIVE I_remove_node_unverified(_, _)
RECURSIVE RemoveFromChildren(_, _, _)
\* for parent in &node.from { parent.to.shift_remove(&node.id) }
RECURSIVE RemoveFromParents(_, _, _)
RemoveFromParents(W, parents, nid) ==
    IF parents = <<>> THEN W
    ELSE LET parent == parents[1]
             W1 == IF parent \in DOMAIN W.nodes
                   THEN [W EXCEPT !.nodes[parent].to = ShiftRemove(@, nid)]
                   ELSE W
         IN RemoveFromParents(W1, Tail(parents), nid)

I_remove_node_unverified(W, id) ==
    IF id \notin DOMAIN W.nodes THEN [w |-> W, ret |-> FALSE]
    ELSE LET node == W.nodes[id]
             W1 == [nodes |-> RemoveKey(W.nodes, id),
                    roots |-> ShiftRemove(W.roots, id),
                    active |-> W.active \ {id},
                    bookmarked |-> ShiftRemove(W.bookmarked, id)]
             W2 == RemoveFromParents(W1, node.from, node.id)
         IN [w |-> RemoveFromChildren(W2, node.to, node), ret |-> TRUE]

\* The loop of remove_node_unverified that removes every child, whether or
\* not another parent is left to it
RECURSIVE RemoveFromChildren_RemovesAll(_, _, _)
RemoveFromChildren_RemovesAll(W, children, node) ==
    IF children = <<>> THEN W
    ELSE LET child == children[1] IN
         IF child \notin DOMAIN W.nodes
         THEN RemoveFromChildren_RemovesAll(W, Tail(children), node)
         ELSE LET W1 == [W EXCEPT !.nodes[child].from = ShiftRemove(@, node.id)]
              IN RemoveFromChildren_RemovesAll(
                     I_remove_node_unverified(W1, W1.nodes[child].id).w,
                     Tail(children), node)

\* for child in &node.to { ... }
RemoveFromChildren(W, children, node) ==
    IF children = <<>> THEN W
    ELSE LET child == children[1] IN
         IF child \notin DOMAIN W.nodes
         THEN RemoveFromChildren(W, Tail(children), node)
         ELSE LET W1 == [W EXCEPT !.nodes[child].from = ShiftRemove(@, node.id)]
                  identifier == W1.nodes[child].id
                  W2 == IF W1.nodes[child].from = <<>>
                        THEN I_remove_node_unverified(W1, identifier).w
                        ELSE IF node.active /\ W1.nodes[child].active
                        THEN update_removed_child_activity(W1, identifier)
                        ELSE W1
              IN RemoveFromChildren(W2, Tail(children), node)

I_remove_node(W, id) == I_remove_node_unverified(W, id)

\* for x in ids { nodes[x].<field>.insert(id) }
RECURSIVE InsertTo(_, _, _)
InsertTo(W, parents, id) ==
    IF parents = <<>> THEN W
    ELSE InsertTo([W EXCEPT !.nodes[parents[1]].to = Insert(@, id)], Tail(parents), id)

RECURSIVE InsertFrom(_, _, _)
InsertFrom(W, children, id) ==
    IF children = <<>> THEN W
    ELSE InsertFrom([W EXCEPT !.nodes[children[1]].from = Insert(@, id)], Tail(children), id)

\* The first loop of add_node: an active child without parents forces the
\* new node active and leaves roots.
RECURSIVE AdoptRoots(_, _, _)
AdoptRoots(W, children, active) ==
    IF children = <<>> THEN [w |-> W, active |-> active]
    ELSE LET child == W.nodes[children[1]] IN
         IF child.from = <<>> /\ child.active
         THEN AdoptRoots([W EXCEPT !.roots = ShiftRemove(@, child.id)], Tail(children), TRUE)
         ELSE AdoptRoots(W, Tail(children), active)

I_add_node(W, node0) ==
    LET is_invalid == \/ node0.id \in DOMAIN W.nodes
                      \/ ~IndependentNode_validate(node0)
                      \/ ~(Range(node0.from) \subseteq DOMAIN W.nodes)
                      \/ ~(Range(node0.to) \subseteq DOMAIN W.nodes)
    IN
    IF is_invalid THEN [w |-> W, ret |-> FALSE]
    ELSE LET a == AdoptRoots(W, node0.to, node0.active)
             node == [node0 EXCEPT !.active = a.active]
             W1 == a.w
             W2 == IF node.from = <<>>
                   THEN LET active_roots == SelectSeq(W1.roots, LAMBDA root : root \in W1.active)
                            W1a == IF node.active THEN UpdateEach(W1, active_roots, FALSE) ELSE W1
                        IN [W1a EXCEPT !.roots = Insert(@, node.id)]
                   ELSE LET has_active_parents ==
                                \E parent \in Range(node.from) : parent \in W1.active
                            W1a == IF node.active /\ ~has_active_parents
                                   THEN update_node_activity_in_place(W1, node.from[1], TRUE).w
                                   ELSE W1
                            siblings == SelectSeq(ChildrenOfAll(W1a, node.from, node.id),
                                                  LAMBDA sibling : sibling \in W1a.active)
                            W1b == IF node.active THEN UpdateEach(W1a, siblings, FALSE) ELSE W1a
                        IN InsertTo(W1b, node.from, node.id)
             W3 == InsertFrom(W2, node.to, node.id)
             W4 == [W3 EXCEPT !.active = IF node.active THEN @ \cup {node.id} ELSE @,
                              !.bookmarked = IF node.bookmarked THEN Insert(@, node.id) ELSE @]
         IN [w |-> [W4 EXCEPT !.nodes = InsertKey(@, node.id, node)], ret |-> TRUE]

\* The first active child, in children order (0 when there is none)
FirstActiveChild(W, id) ==
    LET cs == SelectSeq(W.nodes[id].to,
                        LAMBDA child : child \in DOMAIN W.nodes /\ W.nodes[child].active)
    IN IF cs = <<>> THEN None ELSE cs[1]

I_set_node_active_status(W, id, value, alternate) ==
    IF value /\ id \in DOMAIN W.nodes /\ FirstActiveChild(W, id) # None
    THEN LET active_child == W.nodes[FirstActiveChild(W, id)]
             child_id == active_child.id
         IN IF \/ (~alternate /\ Len(active_child.from) = 1)
               \/ (alternate /\ Len(active_child.from) > 1)
            THEN LET result == update_node_activity_in_place(W, id, TRUE)
                 IN [w |-> update_node_activity_in_place(result.w, child_id, FALSE).w,
                     ret |-> result.ret]
            ELSE update_node_activity_in_place(W, id, value)
    ELSE update_node_activity_in_place(W, id, value)

I_set_node_active_status_in_place(W, id, value) ==
    update_node_activity_in_place(W, id, value)

I_set_node_bookmarked_status(W, id, value) ==
    IF id \notin DOMAIN W.nodes THEN [w |-> W, ret |-> FALSE]
    ELSE [w |-> [W EXCEPT !.nodes[id].bookmarked = value,
                          !.bookmarked = IF value THEN Insert(@, W.nodes[id].id)
                                         ELSE ShiftRemove(@, id)],
          ret |-> TRUE]

\* sort_node_children_by with a comparator under which the stable sort of
\* the children (those present in nodes) comes out as `order`
I_sort_node_children_by(W, id, order) ==
    IF id \notin DOMAIN W.nodes THEN [w |-> W, ret |-> FALSE]
    ELSE [w |-> [W EXCEPT !.nodes[id].to = order], ret |-> TRUE]

SortInputs(W, s) == Perms(SelectSeq(s, LAMBDA x : x \in DOMAIN W.nodes))

I_sort_roots_by(W, order) == [w |-> [W EXCEPT !.roots = order], ret |-> TRUE]

\* The loop of split_node over the children of the split node: each child's
\* parent entry is rewritten, and an active child marks the new node active.
RECURSIVE SplitChildren(_, _, _, _, _)
SplitChildren(W, children, old, new, active) ==
    IF children = <<>> THEN [w |-> W, active |-> active]
    ELSE LET child == children[1]
             W1 == [W EXCEPT !.nodes[child].from = ReplaceParent(@, old, new)]
         IN SplitChildren(W1, Tail(children), old, new, active \/ W.nodes[child].active)

\* I_split_node that, when the contents do not split, returns false without
\* putting the node back into nodes
I_split_node_DropsOnFailure(W, id, at, new_id) ==
    IF new_id \in DOMAIN W.nodes \/ id = new_id THEN [w |-> W, ret |-> FALSE]
    ELSE IF id \notin DOMAIN W.nodes THEN [w |-> W, ret |-> FALSE]
    ELSE LET node == W.nodes[id]
             r == NodeContent_split(node.contents, at)
         IN IF r.tag = "One"
            THEN [w |-> [W EXCEPT !.nodes = RemoveKey(@, id)], ret |-> FALSE]
            ELSE LET left_node == IndependentNode(node.id, node.from, <<new_id>>,
                                                  node.active, node.bookmarked, r.left)
                     W1 == [W EXCEPT !.nodes = RemoveKey(@, id)]
                     c == SplitChildren(W1, node.to, left_node.id, new_id, FALSE)
                     right_node == IndependentNode(new_id, <<node.id>>, node.to,
                                                   c.active, FALSE, r.right)
                 IN [w |-> [c.w EXCEPT !.nodes = InsertKey(InsertKey(@, left_node.id, left_node),
                                                           right_node.id, right_node)],
                     ret |-> TRUE]

I_split_node(W, id, at, new_id) ==
    IF new_id \in DOMAIN W.nodes \/ id = new_id THEN [w |-> W, ret |-> FALSE]
    ELSE IF id \notin DOMAIN W.nodes THEN [w |-> W, ret |-> FALSE]
    ELSE LET node == W.nodes[id]
             r == NodeContent_split(node.contents, at)
         IN IF r.tag = "One"
            THEN [w |-> [W EXCEPT !.nodes[id].contents = r.value], ret |-> FALSE]
            ELSE LET left_node == IndependentNode(node.id, node.from, <<new_id>>,
                                                  node.active, node.bookmarked, r.left)
                     W1 == [W EXCEPT !.nodes = RemoveKey(@, id)]
                     c == SplitChildren(W1, node.to, left_node.id, new_id, FALSE)
                     right_node == IndependentNode(new_id, <<node.id>>, node.to,
                                                   c.active, FALSE, r.right)
                 IN [w |-> [c.w EXCEPT !.nodes = InsertKey(InsertKey(@, left_node.id, left_node),
                                                           right_node.id, right_node)],
                     ret |-> TRUE]

\* for child in parent.to.iter() { child.from: node.id -> parent.id }
RECURSIVE MergeChildren(_, _, _, _)
MergeChildren(W, children, old, new) ==
    IF children = <<>> THEN W
    ELSE MergeChildren([W EXCEPT !.nodes[children[1]].from = ReplaceParent(@, old, new)],
                       Tail(children), old, new)

\* Option<K> results are an id or None
I_merge_with_parent(W, id) ==
    IF id \notin DOMAIN W.nodes THEN [w |-> W, ret |-> None]
    ELSE LET node == W.nodes[id]
             W1 == [W EXCEPT !.nodes = RemoveKey(@, id)]
         IN IF Len(node.from) # 1 THEN [w |-> W, ret |-> None]
            ELSE IF node.from[1] \notin DOMAIN W1.nodes THEN [w |-> W, ret |-> None]
            ELSE LET parent == W1.nodes[node.from[1]]
                     W2 == [W1 EXCEPT !.nodes = RemoveKey(@, node.from[1])]
                     r == NodeContent_merge(parent.contents, node.contents)
                 IN IF Len(parent.to) > 1 THEN [w |-> W, ret |-> None]
                    ELSE IF r.tag = "Two"
                    THEN [w |-> [W EXCEPT !.nodes[parent.id].contents = r.left,
                                          !.nodes[node.id].contents = r.right],
                          ret |-> None]
                    ELSE LET merged == [parent EXCEPT !.contents = r.value, !.to = node.to]
                             W3 == MergeChildren(W2, merged.to, node.id, parent.id)
                         IN [w |-> [W3 EXCEPT !.nodes = InsertKey(@, merged.id, merged),
                                              !.bookmarked = ShiftRemove(@, node.id),
                                              !.active = @ \ {node.id}],
                             ret |-> parent.id]

\* for old_parent in &old_parents { if !new.contains(old) { old.to.shift_remove(id) } }
RECURSIVE DropOldParents(_, _, _, _)
DropOldParents(W, old_parents, new_parents, id) ==
    IF old_parents = <<>> THEN W
    ELSE LET p == old_parents[1]
             W1 == IF ~Contains(new_parents, p) /\ p \in DOMAIN W.nodes
                   THEN [W EXCEPT !.nodes[p].to = ShiftRemove(@, id)]
                   ELSE W
         IN DropOldParents(W1, Tail(old_parents), new_parents, id)

\* The loop over the new parents that links the node under the first new
\* parent only
LinkNewParents_FirstOnly(W, new_parents, old_parents, id) ==
    IF new_parents = <<>> THEN W
    ELSE LET p == new_parents[1]
         IN IF ~Contains(old_parents, p) /\ p \in DOMAIN W.nodes
            THEN [W EXCEPT !.nodes[p].to = Insert(@, id)]
            ELSE W

\* for new_parent in &new_parents { if !old.contains(new) { new.to.insert(id) } }
RECURSIVE LinkNewParents(_, _, _, _)
LinkNewParents(W, new_parents, old_parents, id) ==
    IF new_parents = <<>> THEN W
    ELSE LET p == new_parents[1]
             W1 == IF ~Contains(old_parents, p) /\ p \in DOMAIN W.nodes
                   THEN [W EXCEPT !.nodes[p].to = Insert(@, id)]
                   ELSE W
         IN LinkNewParents(W1, Tail(new_parents), old_parents, id)

\* I_move_node without the test that no new parent is a child of the node
I_move_node_AllowsChildAsParent(W, id, parents_slice) ==
    IF \E p \in Range(parents_slice) : p \notin DOMAIN W.nodes THEN [w |-> W, ret |-> FALSE]
    ELSE LET has_active_new_parents == \E p \in Range(parents_slice) : W.nodes[p].active
             new_parents == FromIter(parents_slice)
         IN IF Contains(new_parents, id) THEN [w |-> W, ret |-> FALSE]
            ELSE IF id \notin DOMAIN W.nodes THEN [w |-> W, ret |-> FALSE]
            ELSE LET old_parents == W.nodes[id].from
                     W1 == DropOldParents(W, old_parents, new_parents, id)
                     W2 == LinkNewParents(W1, new_parents, old_parents, id)
                     nid == W2.nodes[id].id
                     W3 == [W2 EXCEPT !.nodes[id].from = new_parents,
                                      !.roots = IF new_parents = <<>> THEN Insert(@, nid)
                                                ELSE ShiftRemove(@, nid)]
                 IN IF W3.nodes[id].active /\ ~has_active_new_parents /\ new_parents # <<>>
                    THEN [w |-> update_node_activity_in_place(W3, new_parents[1], TRUE).w,
                          ret |-> TRUE]
                    ELSE [w |-> W3, ret |-> TRUE]

I_move_node(W, id, parents_slice) ==
    IF \E p \in Range(parents_slice) : p \notin DOMAIN W.nodes THEN [w |-> W, ret |-> FALSE]
    ELSE LET has_active_new_parents == \E p \in Range(parents_slice) : W.nodes[p].active
             new_parents == FromIter(parents_slice)
         IN IF Contains(new_parents, id) THEN [w |-> W, ret |-> FALSE]
            ELSE IF id \notin DOMAIN W.nodes THEN [w |-> W, ret |-> FALSE]
            ELSE IF \E child \in Range(W.nodes[id].to) : Contains(new_parents, child)
            THEN [w |-> W, ret |-> FALSE]
            ELSE LET old_parents == W.nodes[id].from
                     W1 == DropOldParents(W, old_parents, new_parents, id)
                     W2 == LinkNewParents(W1, new_parents, old_parents, id)
                     nid == W2.nodes[id].id
                     W3 == [W2 EXCEPT !.nodes[id].from = new_parents,
                                      !.roots = IF new_parents = <<>> THEN Insert(@, nid)
                                                ELSE ShiftRemove(@, nid)]
                 IN IF W3.nodes[id].active /\ ~has_active_new_parents /\ new_parents # <<>>
                    THEN [w |-> update_node_activity_in_place(W3, new_parents[1], TRUE).w,
                          ret |-> TRUE]
                    ELSE [w |-> W3, ret |-> TRUE]

(***************************************************************************)
(* DependentWeave (tree).  A weave value W is the record                   *)
(* [nodes, roots, active, bookmarked] with active an id or None; a node is *)
(* the record [id, from, to, active, bookmarked, contents] with from an id *)
(* or None.                                                                *)
(***************************************************************************)
EmptyTree == [nodes |-> <<>>, roots |-> <<>>, active |-> None, bookmarked |-> <<>>]

DependentNode(id, from, to, active, bookmarked, contents) ==
    [id |-> id, from |-> from, to |-> to, active |-> active,
     bookmarked |-> bookmarked, contents |-> contents]

DependentNode_validate(node) ==
    /\ (node.from # None => ~Contains(node.to, node.from))
    /\ node.from # node.id
    /\ ~Contains(node.to, node.id)

RECURSIVE D_remove_node_unverified(_, _)
RECURSIVE RemoveSubtrees(_, _)
D_remove_node_unverified(W, id) ==
    IF id \notin DOMAIN W.nodes THEN [w |-> W, ret |-> FALSE]
    ELSE LET node == W.nodes[id]
             W1 == [W EXCEPT !.nodes = RemoveKey(@, id),
                             !.roots = ShiftRemove(@, id),
                             !.bookmarked = ShiftRemove(@, id)]
             W2 == RemoveSubtrees(W1, node.to)
             W3 == IF node.active
                   THEN IF node.from # None /\ node.from \in DOMAIN W2.nodes
                        THEN [W2 EXCEPT !.active = node.from,
                                        !.nodes[node.from].active = TRUE]
                        ELSE [W2 EXCEPT !.active = None]
                   ELSE W2
             W4 == IF node.from # None /\ node.from \in DOMAIN W3.nodes
                   THEN [W3 EXCEPT !.nodes[node.from].to = ShiftRemove(@, id)]
                   ELSE W3
         IN [w |-> W4, ret |-> TRUE]

\* for child in node.to.iter() { self.remove_node_unverified(child); }
RemoveSubtrees(W, children) ==
    IF children = <<>> THEN W
    ELSE RemoveSubtrees(D_remove_node_unverified(W, children[1]).w, Tail(children))

\* D_remove_node that removes the node alone and leaves its children in nodes
D_remove_node_KeepsChildren(W, id) ==
    IF id \notin DOMAIN W.nodes THEN [w |-> W, ret |-> FALSE]
    ELSE LET node == W.nodes[id]
             W1 == [W EXCEPT !.nodes = RemoveKey(@, id),
                             !.roots = ShiftRemove(@, id),
                             !.bookmarked = ShiftRemove(@, id)]
             W3 == IF node.active
                   THEN IF node.from # None /\ node.from \in DOMAIN W1.nodes
                        THEN [W1 EXCEPT !.active = node.from,
                                        !.nodes[node.from].active = TRUE]
                        ELSE [W1 EXCEPT !.active = None]
                   ELSE W1
             W4 == IF node.from # None /\ node.from \in DOMAIN W3.nodes
                   THEN [W3 EXCEPT !.nodes[node.from].to = ShiftRemove(@, id)]
                   ELSE W3
         IN [w |-> W4, ret |-> TRUE]

D_remove_node(W, id) == D_remove_node_unverified(W, id)

\* self.active.and_then(|id| self.nodes.get_mut(&id)) ... active.active = false
ClearActiveFlag(W) ==
    IF W.active # None /\ W.active \in DOMAIN W.nodes
    THEN [W EXCEPT !.nodes[W.active].active = FALSE]
    ELSE W

\* D_add_node that accepts a node that already lists children
D_add_node_AcceptsChildren(W, node) ==
    LET is_invalid == \/ node.id \in DOMAIN W.nodes
                      \/ ~DependentNode_validate(node)
    IN
    IF is_invalid THEN [w |-> W, ret |-> FALSE]
    ELSE IF node.from # None /\ node.from \notin DOMAIN W.nodes THEN [w |-> W, ret |-> FALSE]
    ELSE LET W1 == IF node.from # None
                   THEN [W EXCEPT !.nodes[node.from].to = Insert(@, node.id)]
                   ELSE [W EXCEPT !.roots = Insert(@, node.id)]
             W2 == IF node.active
                   THEN [ClearActiveFlag(W1) EXCEPT !.active = node.id]
                   ELSE W1
             W3 == IF node.bookmarked
                   THEN [W2 EXCEPT !.bookmarked = Insert(@, node.id)]
                   ELSE W2
         IN [w |-> [W3 EXCEPT !.nodes = InsertKey(@, node.id, node)], ret |-> TRUE]

\* D_add_node with the previously active node's flag left set
D_add_node_KeepsOldFlag(W, node) ==
    LET is_invalid == \/ node.id \in DOMAIN W.nodes
                      \/ ~DependentNode_validate(node)
                      \/ node.to # <<>>
    IN
    IF is_invalid THEN [w |-> W, ret |-> FALSE]
    ELSE IF node.from # None /\ node.from \notin DOMAIN W.nodes THEN [w |-> W, ret |-> FALSE]
    ELSE LET W1 == IF node.from # None
                   THEN [W EXCEPT !.nodes[node.from].to = Insert(@, node.id)]
                   ELSE [W EXCEPT !.roots = Insert(@, node.id)]
             W2 == IF node.active THEN [W1 EXCEPT !.active = node.id] ELSE W1
             W3 == IF node.bookmarked
                   THEN [W2 EXCEPT !.bookmarked = Insert(@, node.id)]
                   ELSE W2
         IN [w |-> [W3 EXCEPT !.nodes = InsertKey(@, node.id, node)], ret |-> TRUE]

D_add_node(W, node) ==
    LET is_invalid == \/ node.id \in DOMAIN W.nodes
                      \/ ~DependentNode_validate(node)
                      \/ node.to # <<>>
    IN
    IF is_invalid THEN [w |-> W, ret |-> FALSE]
    ELSE IF node.from # None /\ node.from \notin DOMAIN W.nodes THEN [w |-> W, ret |-> FALSE]
    ELSE LET W1 == IF node.from # None
                   THEN [W EXCEPT !.nodes[node.from].to = Insert(@, node.id)]
                   ELSE [W EXCEPT !.roots = Insert(@, node.id)]
             W2 == IF node.active
                   THEN [ClearActiveFlag(W1) EXCEPT !.active = node.id]
                   ELSE W1
             W3 == IF node.bookmarked
                   THEN [W2 EXCEPT !.bookmarked = Insert(@, node.id)]
                   ELSE W2
         IN [w |-> [W3 EXCEPT !.nodes = InsertKey(@, node.id, node)], ret |-> TRUE]

D_set_node_active_status_in_place(W, id, value) ==
    IF id \notin DOMAIN W.nodes THEN [w |-> W, ret |-> FALSE]
    ELSE LET W1 == [W EXCEPT !.nodes[id].active = value]
             nid == W1.nodes[id].id
         IN IF value
            THEN [w |-> [(IF W1.active # nid THEN ClearActiveFlag(W1) ELSE W1)
                         EXCEPT !.active = id],
                  ret |-> TRUE]
            ELSE IF W1.active = nid
            THEN [w |-> [W1 EXCEPT !.active = None], ret |-> TRUE]
            ELSE [w |-> W1, ret |-> TRUE]

D_set_node_active_status(W, id, value, alternate) ==
    D_set_node_active_status_in_place(W, id, value)

D_set_node_bookmarked_status(W, id, value) ==
    IF id \notin DOMAIN W.nodes THEN [w |-> W, ret |-> FALSE]
    ELSE [w |-> [W EXCEPT !.nodes[id].bookmarked = value,
                          !.bookmarked = IF value THEN Insert(@, W.nodes[id].id)
                                         ELSE ShiftRemove(@, id)],
          ret |-> TRUE]

D_sort_node_children_by(W, id, order) ==
    IF id \notin DOMAIN W.nodes THEN [w |-> W, ret |-> FALSE]
    ELSE [w |-> [W EXCEPT !.nodes[id].to = order], ret |-> TRUE]

D_sort_roots_by(W, order) == [w |-> [W EXCEPT !.roots = order], ret |-> TRUE]

\* for child in node.to.iter() { child.from = Some(parent) }
RECURSIVE Reparent(_, _, _)
Reparent(W, children, parent) ==
    IF children = <<>> THEN W
    ELSE Reparent([W EXCEPT !.nodes[children[1]].from = parent], Tail(children), parent)

\* D_split_node without the loop that rewrites the children's parent
D_split_node_KeepsChildLinks(W, id, at, new_id) ==
    IF new_id \in DOMAIN W.nodes \/ id = new_id THEN [w |-> W, ret |-> FALSE]
    ELSE IF id \notin DOMAIN W.nodes THEN [w |-> W, ret |-> FALSE]
    ELSE LET node == W.nodes[id]
             r == NodeContent_split(node.contents, at)
         IN IF r.tag = "One"
            THEN [w |-> [W EXCEPT !.nodes[id].contents = r.value], ret |-> FALSE]
            ELSE LET left_node == DependentNode(node.id, node.from, <<new_id>>,
                                                node.active, node.bookmarked, r.left)
                     right_node == DependentNode(new_id, node.id, node.to,
                                                 FALSE, FALSE, r.right)
                 IN [w |-> [W EXCEPT !.nodes = InsertKey(InsertKey(RemoveKey(@, id),
                                                                   left_node.id, left_node),
                                                         right_node.id, right_node)],
                     ret |-> TRUE]

D_split_node(W, id, at, new_id) ==
    IF new_id \in DOMAIN W.nodes \/ id = new_id THEN [w |-> W, ret |-> FALSE]
    ELSE IF id \notin DOMAIN W.nodes THEN [w |-> W, ret |-> FALSE]
    ELSE LET node == W.nodes[id]
             r == NodeContent_split(node.contents, at)
         IN IF r.tag = "One"
            THEN [w |-> [W EXCEPT !.nodes[id].contents = r.value], ret |-> FALSE]
            ELSE LET left_node == DependentNode(node.id, node.from, <<new_id>>,
                                                node.active, node.bookmarked, r.left)
                     right_node == DependentNode(new_id, node.id, node.to,
                                                 FALSE, FALSE, r.right)
                     W1 == Reparent([W EXCEPT !.nodes = RemoveKey(@, id)],
                                    right_node.to, right_node.id)
                 IN [w |-> [W1 EXCEPT !.nodes = InsertKey(InsertKey(@, left_node.id, left_node),
                                                          right_node.id, right_node)],
                     ret |-> TRUE]

\* D_merge_with_parent that leaves the weave's active id where it was
D_merge_with_parent_KeepsActive(W, id) ==
    IF id \notin DOMAIN W.nodes THEN [w |-> W, ret |-> None]
    ELSE LET node == W.nodes[id]
             W1 == [W EXCEPT !.nodes = RemoveKey(@, id)]
         IN IF node.from = None \/ node.from \notin DOMAIN W1.nodes
            THEN [w |-> W, ret |-> None]
            ELSE LET parent == W1.nodes[node.from]
                     W2 == [W1 EXCEPT !.nodes = RemoveKey(@, node.from)]
                     r == NodeContent_merge(parent.contents, node.contents)
                 IN IF Len(parent.to) > 1 THEN [w |-> W, ret |-> None]
                    ELSE IF r.tag = "Two"
                    THEN [w |-> [W EXCEPT !.nodes[parent.id].contents = r.left,
                                          !.nodes[node.id].contents = r.right],
                          ret |-> None]
                    ELSE LET merged == [parent EXCEPT
                                           !.contents = r.value,
                                           !.to = node.to,
                                           !.active = IF node.active THEN TRUE ELSE @]
                             W3 == Reparent(W2, merged.to, parent.id)
                         IN [w |-> [W3 EXCEPT
                                       !.nodes = InsertKey(@, merged.id, merged),
                                       !.bookmarked = ShiftRemove(@, node.id)],
                             ret |-> parent.id]

\* D_merge_with_parent whose merged node keeps the parent's children list
D_merge_with_parent_KeepsParentChildren(W, id) ==
    IF id \notin DOMAIN W.nodes THEN [w |-> W, ret |-> None]
    ELSE LET node == W.nodes[id]
             W1 == [W EXCEPT !.nodes = RemoveKey(@, id)]
         IN IF node.from = None \/ node.from \notin DOMAIN W1.nodes
            THEN [w |-> W, ret |-> None]
            ELSE LET parent == W1.nodes[node.from]
                     W2 == [W1 EXCEPT !.nodes = RemoveKey(@, node.from)]
                     r == NodeContent_merge(parent.contents, node.contents)
                 IN IF Len(parent.to) > 1 THEN [w |-> W, ret |-> None]
                    ELSE IF r.tag = "Two"
                    THEN [w |-> [W EXCEPT !.nodes[parent.id].contents = r.left,
                                          !.nodes[node.id].contents = r.right],
                          ret |-> None]
                    ELSE LET merged == [parent EXCEPT
                                           !.contents = r.value,
                                           !.active = IF node.active THEN TRUE ELSE @]
                             W3 == Reparent(W2, node.to, parent.id)
                         IN [w |-> [W3 EXCEPT
                                       !.active = IF node.active THEN parent.id ELSE @,
                                       !.nodes = InsertKey(@, merged.id, merged),
                                       !.bookmarked = ShiftRemove(@, node.id)],
                             ret |-> parent.id]

D_merge_with_parent(W, id) ==
    IF id \notin DOMAIN W.nodes THEN [w |-> W, ret |-> None]
    ELSE LET node == W.nodes[id]
             W1 == [W EXCEPT !.nodes = RemoveKey(@, id)]
         IN IF node.from = None \/ node.from \notin DOMAIN W1.nodes
            THEN [w |-> W, ret |-> None]
            ELSE LET parent == W1.nodes[node.from]
                     W2 == [W1 EXCEPT !.nodes = RemoveKey(@, node.from)]
                     r == NodeContent_merge(parent.contents, node.contents)
                 IN IF Len(parent.to) > 1 THEN [w |-> W, ret |-> None]
                    ELSE IF r.tag = "Two"
                    THEN [w |-> [W EXCEPT !.nodes[parent.id].contents = r.left,
                                          !.nodes[node.id].contents = r.right],
                          ret |-> None]
                    ELSE LET merged == [parent EXCEPT
                                           !.contents = r.value,
                                           !.to = node.to,
                                           !.active = IF node.active THEN TRUE ELSE @]
                             W3 == Reparent(W2, merged.to, parent.id)
                         IN [w |-> [W3 EXCEPT
                                       !.active = IF node.active THEN parent.id ELSE @,
                                       !.nodes = InsertKey(@, merged.id, merged),
                                       !.bookmarked = ShiftRemove(@, node.id)],
                             ret |-> parent.id]

(***************************************************************************)
(* Threads.  The scratchpads of a weave are cleared at the start of every  *)
(* call, so a thread is a function of the weave: the thread operators      *)
(* return the sequence the iterator yields.  A thread under construction   *)
(* is the record [list, set] of thread_list and thread_set.                *)
(***************************************************************************)
Reverse(s) == [i \in 1..Len(s) |-> s[Len(s) + 1 - i]]

EmptyThread == [list |-> <<>>, set |-> {}]

Push(t, id) == [list |-> Append(t.list, id), set |-> t.set \cup {id}]

\* independent.rs build_thread
RECURSIVE I_build_thread(_, _, _)
RECURSIVE BuildChildren(_, _, _)
I_build_thread(W, id, t) ==
    IF /\ id \in DOMAIN W.nodes
       /\ \A parent \in Range(W.nodes[id].to) : parent \in W.active => parent \in t.set
    THEN BuildChildren(W, W.nodes[id].to, Push(t, id))
    ELSE t

\* for child in node.to { if active.contains(&child) { build_thread(child) } }
BuildChildren(W, children, t) ==
    IF children = <<>> THEN t
    ELSE BuildChildren(W, Tail(children),
                       IF children[1] \in W.active
                       THEN I_build_thread(W, children[1], t) ELSE t)

RECURSIVE build_thread_until(_, _, _, _)
RECURSIVE BuildChildrenUntil(_, _, _, _)
build_thread_until(W, id, stop_at, t) ==
    IF /\ id \notin stop_at
       /\ id \in DOMAIN W.nodes
       /\ \A parent \in Range(W.nodes[id].to) : parent \in W.active => parent \in t.set
    THEN BuildChildrenUntil(W, W.nodes[id].to, stop_at, Push(t, id))
    ELSE t

BuildChildrenUntil(W, children, stop_at, t) ==
    IF children = <<>> THEN t
    ELSE BuildChildrenUntil(W, Tail(children), stop_at,
                            IF children[1] \in W.active
                            THEN build_thread_until(W, children[1], stop_at, t) ELSE t)

RECURSIVE build_thread_from(_, _, _)
build_thread_from(W, id, t) ==
    IF id \notin DOMAIN W.nodes THEN t
    ELSE LET node == W.nodes[id] IN
         IF \E parent \in Range(node.from) : parent \in W.active THEN Push(t, id)
         ELSE IF node.from # <<>> THEN build_thread_from(W, node.from[1], Push(t, id))
         ELSE Push(t, id)

\* for active_root in roots.filter(active) { build_thread(active_root) }
RECURSIVE BuildFromRoots(_, _, _)
BuildFromRoots(W, roots, t) ==
    IF roots = <<>> THEN t
    ELSE BuildFromRoots(W, Tail(roots),
                        IF roots[1] \in W.active THEN I_build_thread(W, roots[1], t) ELSE t)

I_get_active_thread(W) == Reverse(BuildFromRoots(W, W.roots, EmptyThread).list)

\* for active_root in roots.filter(active) { build_thread_until(active_root, stop_at) }
RECURSIVE BuildFromRootsUntil(_, _, _, _)
BuildFromRootsUntil(W, roots, stop_at, t) ==
    IF roots = <<>> THEN t
    ELSE BuildFromRootsUntil(W, Tail(roots), stop_at,
                             IF roots[1] \in W.active
                             THEN build_thread_until(W, roots[1], stop_at, t) ELSE t)

I_get_thread_from(W, id) ==
    LET scratchpad_list == build_thread_from(W, id, EmptyThread).list IN
    IF scratchpad_list # <<>> /\ ~Contains(W.roots, scratchpad_list[Len(scratchpad_list)])
    THEN LET last_thread_node == scratchpad_list[Len(scratchpad_list)]
             stop_at == {parent \in Range(W.nodes[last_thread_node].from) :
                            parent \in W.active}
             scratchpad_list_2 == BuildFromRootsUntil(W, W.roots, stop_at, EmptyThread).list
         IN scratchpad_list \o Reverse(scratchpad_list_2)
    ELSE scratchpad_list

\* dependent.rs build_thread
RECURSIVE D_build_thread(_, _, _)
D_build_thread(W, id, thread) ==
    IF id \notin DOMAIN W.nodes THEN thread
    ELSE IF W.nodes[id].from # None
    THEN D_build_thread(W, W.nodes[id].from, Append(thread, id))
    ELSE Append(thread, id)

D_get_active_thread(W) ==
    IF W.active # None THEN D_build_thread(W, W.active, <<>>) ELSE <<>>

D_get_thread_from(W, id) == D_build_thread(W, id, <<>>)

(***************************************************************************)
(* The callers.  lib.rs documents that add_node and move_node do not check *)
(* for cyclical connections and that avoiding them is the caller's duty,   *)
(* so the callers below only make calls that leave the graph acyclic.      *)
(***************************************************************************)
\* The nodes reachable from the set S along child links, S included
RECURSIVE Descendants(_, _, _)
Descendants(nodes, S, n) ==
    IF n = 0 THEN S
    ELSE Descendants(nodes,
                     S \cup UNION {Range(nodes[k].to) : k \in S \cap DOMAIN nodes},
                     n - 1)

\* No parent of the linked node is one of its descendants
KeepsAcyclic(W, parents, children) ==
    Range(parents) \cap Descendants(W.nodes, Range(children), Cardinality(DOMAIN W.nodes)) = {}

\* The id lists a caller passes as parents or children: ids of nodes it
\* knows to be in the weave
IdLists(W) == {s \in SeqsOver(DOMAIN W.nodes) : Len(s) <= 2}

\* The identifier generator: an id that is not in the weave (ids are opaque
\* to the weave, so the smallest unused one stands for any of them)
NewIds(W) == IF Ids \ DOMAIN W.nodes = {} THEN {}
             ELSE {CHOOSE id \in Ids \ DOMAIN W.nodes :
                      \A other \in Ids \ DOMAIN W.nodes : id <= other}

IsDag == flavor = "IndependentWeave" /\ ops < MaxOps

IsTree == flavor = "DependentWeave" /\ ops < MaxOps

I_Do(r) ==
    iw' = r.w /\ ops' = ops + 1 /\ UNCHANGED <<flavor, dw, content, codec, tw_active>>

D_Do(r) ==
    dw' = r.w /\ ops' = ops + 1 /\ UNCHANGED <<flavor, iw, content, codec, tw_active>>

I_AddNode ==
    /\ IsDag
    /\ \E id \in NewIds(iw), from \in IdLists(iw), to \in IdLists(iw), n \in InputNodes :
          /\ KeepsAcyclic(iw, from, to)
          /\ I_Do(I_add_node(iw, IndependentNode(id, from, to, n.active, n.bookmarked,
                                                 n.contents)))

I_RemoveNode ==
    /\ IsDag
    /\ \E id \in DOMAIN iw.nodes : I_Do(I_remove_node(iw, id))

I_MoveNode ==
    /\ IsDag
    /\ \E id \in DOMAIN iw.nodes, new_parents \in IdLists(iw) :
          /\ KeepsAcyclic(iw, new_parents, <<id>>)
          /\ I_Do(I_move_node(iw, id, new_parents))

I_SetNodeActiveStatus ==
    /\ IsDag
    /\ \E id \in DOMAIN iw.nodes, value \in BOOLEAN, alternate \in BOOLEAN :
          I_Do(I_set_node_active_status(iw, id, value, alternate))

I_SetNodeActiveStatusInPlace ==
    /\ IsDag
    /\ \E id \in DOMAIN iw.nodes, value \in BOOLEAN :
          I_Do(I_set_node_active_status_in_place(iw, id, value))

I_SetNodeBookmarkedStatus ==
    /\ IsDag
    /\ \E id \in DOMAIN iw.nodes, value \in BOOLEAN :
          I_Do(I_set_node_bookmarked_status(iw, id, value))

I_SortNodeChildrenBy ==
    /\ IsDag
    /\ \E id \in DOMAIN iw.nodes :
          \E order \in SortInputs(iw, iw.nodes[id].to) :
             I_Do(I_sort_node_children_by(iw, id, order))

I_SortRootsBy ==
    /\ IsDag
    /\ \E order \in SortInputs(iw, iw.roots) : I_Do(I_sort_roots_by(iw, order))

I_SplitNode ==
    /\ IsDag
    /\ \E id \in DOMAIN iw.nodes, at \in 0..MaxAt, new_id \in NewIds(iw) :
          I_Do(I_split_node(iw, id, at, new_id))

I_MergeWithParent ==
    /\ IsDag
    /\ \E id \in DOMAIN iw.nodes : I_Do(I_merge_with_parent(iw, id))

NextDag ==
    \/ I_AddNode
    \/ I_RemoveNode
    \/ I_MoveNode
    \/ I_SetNodeActiveStatus
    \/ I_SetNodeActiveStatusInPlace
    \/ I_SetNodeBookmarkedStatus
    \/ I_SortNodeChildrenBy
    \/ I_SortRootsBy
    \/ I_SplitNode
    \/ I_MergeWithParent

\* A parent the caller names for a new tree node: none, or a node it knows
ParentInputs(W) == {None} \cup DOMAIN W.nodes

D_AddNode ==
    /\ IsTree
    /\ \E id \in NewIds(dw), from \in ParentInputs(dw), n \in InputNodes :
          D_Do(D_add_node(dw, DependentNode(id, from, <<>>, n.active, n.bookmarked,
                                            n.contents)))

D_RemoveNode ==
    /\ IsTree
    /\ \E id \in DOMAIN dw.nodes : D_Do(D_remove_node(dw, id))

D_SetNodeActiveStatus ==
    /\ IsTree
    /\ \E id \in DOMAIN dw.nodes, value \in BOOLEAN, alternate \in BOOLEAN :
          D_Do(D_set_node_active_status(dw, id, value, alternate))

D_SetNodeActiveStatusInPlace ==
    /\ IsTree
    /\ \E id \in DOMAIN dw.nodes, value \in BOOLEAN :
          D_Do(D_set_node_active_status_in_place(dw, id, value))

D_SetNodeBookmarkedStatus ==
    /\ IsTree
    /\ \E id \in DOMAIN dw.nodes, value \in BOOLEAN :
          D_Do(D_set_node_bookmarked_status(dw, id, value))

D_SortNodeChildrenBy ==
    /\ IsTree
    /\ \E id \in DOMAIN dw.nodes :
          \E order \in SortInputs(dw, dw.nodes[id].to) :
             D_Do(D_sort_node_children_by(dw, id, order))

D_SortRootsBy ==
    /\ IsTree
    /\ \E order \in SortInputs(dw, dw.roots) : D_Do(D_sort_roots_by(dw, order))

D_SplitNode ==
    /\ IsTree
    /\ \E id \in DOMAIN dw.nodes, at \in 0..MaxAt, new_id \in NewIds(dw) :
          D_Do(D_split_node(dw, id, at, new_id))

D_MergeWithParent ==
    /\ IsTree
    /\ \E id \in DOMAIN dw.nodes : D_Do(D_merge_with_parent(dw, id))

NextTree ==
    \/ D_AddNode
    \/ D_RemoveNode
    \/ D_SetNodeActiveStatus
    \/ D_SetNodeActiveStatusInPlace
    \/ D_SetNodeBookmarkedStatus
    \/ D_SortNodeChildrenBy
    \/ D_SortRootsBy
    \/ D_SplitNode
    \/ D_MergeWithParent

\* No payload is being split and no envelope is being read or written
NoContent == [stage |-> "none"]

NoCodec == [stage |-> "none"]

Init ==
    /\ flavor \in {"IndependentWeave", "DependentWeave"}
    /\ iw = EmptyWeave
    /\ dw = EmptyTree
    /\ ops = 0
    /\ content = NoContent
    /\ codec = NoCodec
    /\ tw_active = <<>>

Next == NextDag \/ NextTree

Spec == Init /\ [][Next]_vars

InitDag == Init /\ flavor = "IndependentWeave"

SpecDag == InitDag /\ [][NextDag]_vars

InitTree == Init /\ flavor = "DependentWeave"

SpecTree == InitTree /\ [][NextTree]_vars

(***************************************************************************)
(* Scenario S5 of the specification: a DagWeave in which A and B are both  *)
(* active roots and C, with parents A and B, is inactive.  The weave is    *)
(* built by four calls: B is added as an active child of A and then moved  *)
(* to the roots.                                                           *)
(***************************************************************************)
S5Weave ==
    LET w1 == I_add_node(EmptyWeave,
                         IndependentNode(1, <<>>, <<>>, TRUE, FALSE, SnippetContents)).w
        w2 == I_add_node(w1, IndependentNode(2, <<1>>, <<>>, TRUE, FALSE, SnippetContents)).w
        w3 == I_move_node(w2, 2, <<>>).w
    IN I_add_node(w3, IndependentNode(3, <<1, 2>>, <<>>, FALSE, FALSE, LinkContents)).w

InitS5 ==
    /\ flavor = "IndependentWeave"
    /\ iw = S5Weave
    /\ dw = EmptyTree
    /\ ops = 0
    /\ content = NoContent
    /\ codec = NoCodec
    /\ tw_active = <<>>

\* The calls of the scenario: the weave is complete, and its nodes are
\* activated, bookmarked, moved, reordered and removed
NextS5 ==
    \/ I_SetNodeActiveStatus
    \/ I_SetNodeActiveStatusInPlace
    \/ I_SetNodeBookmarkedStatus
    \/ I_MoveNode
    \/ I_RemoveNode
    \/ I_SortNodeChildrenBy
    \/ I_SortRootsBy

SpecS5 == InitS5 /\ [][NextS5]_vars

\* A weave of four nodes built by four calls: the root 1, its active child
\* 2, node 3 split off node 1, and the active node 4 under the parents 1
\* and 2
CascadeWeave ==
    LET w1 == I_add_node(EmptyWeave,
                         IndependentNode(1, <<>>, <<>>, FALSE, FALSE, SnippetContents)).w
        w2 == I_add_node(w1, IndependentNode(2, <<1>>, <<>>, TRUE, FALSE, SnippetContents)).w
        w3 == I_split_node(w2, 1, 1, 3).w
    IN I_add_node(w3, IndependentNode(4, <<1, 2>>, <<>>, TRUE, FALSE, SnippetContents)).w

InitCascade ==
    /\ flavor = "IndependentWeave"
    /\ iw = CascadeWeave
    /\ dw = EmptyTree
    /\ ops = 0
    /\ content = NoContent
    /\ codec = NoCodec
    /\ tw_active = <<>>

SpecCascade == InitCascade /\ [][NextS5]_vars

(***************************************************************************)
(* Payloads.  A payload of tapestry-weave v0 or v1 is split at an offset   *)
(* and the two halves are merged again.                                    *)
(***************************************************************************)
\* The largest number of tokens of a token list
MaxTokens == 2

\* Byte strings of up to MaxAt + 1 bytes: they split at every offset a
\* caller tries
ByteStrings == {b \in UNION {[1..n -> {1, 2}] : n \in 0..(MaxAt + 1)} : TRUE}

\* The bytes of a token: none, one or two
TokenBytes == {<<>>, <<1>>, <<1, 2>>}

\* The metadata of a token or of a payload: absent or present
MetadataInputs == {0, 1}

TokenInputs ==
    {InnerNodeToken(b, m, d) : b \in TokenBytes, m \in MetadataInputs, d \in BOOLEAN}

v0_TokenInputs == {v0_Token(b, m) : b \in TokenBytes, m \in MetadataInputs}

TokenLists(T) == UNION {[1..n -> T] : n \in 0..MaxTokens}

ContentInputs(version) ==
    IF version = "v0"
    THEN {Snippet(b) : b \in ByteStrings} \cup {Tokens(t) : t \in TokenLists(v0_TokenInputs)}
    ELSE {Snippet(b) : b \in ByteStrings} \cup {Tokens(t) : t \in TokenLists(TokenInputs)}
           \cup {Link(<<>>)}

\* The offsets a caller passes: from 0 to one past the end of the payload
Offsets(x) == 0..(Len(InnerNodeContent_as_bytes(x)) + 1)

Unset == [tag |-> "Unset"]

InitContent ==
    /\ flavor = "InnerNodeContent"
    /\ iw = EmptyWeave
    /\ dw = EmptyTree
    /\ ops = 0
    /\ codec = NoCodec
    /\ tw_active = <<>>
    /\ \E version \in {"v0", "v1"} :
          \E x \in ContentInputs(version) :
             \E at \in Offsets(x) :
                content = [stage |-> "new", version |-> version, x |-> x, at |-> at,
                           split |-> Unset, merged |-> Unset]

ContentSplit ==
    /\ flavor = "InnerNodeContent"
    /\ content.stage = "new"
    /\ content' = [content EXCEPT
                      !.stage = "split",
                      !.split = IF content.version = "v0"
                                THEN v0_InnerNodeContent_split(content.x, content.at)
                                ELSE InnerNodeContent_split(content.x, content.at)]
    /\ UNCHANGED <<flavor, iw, dw, ops, codec, tw_active>>

ContentMerge ==
    /\ flavor = "InnerNodeContent"
    /\ content.stage = "split"
    /\ content.split.tag = "Two"
    /\ content' = [content EXCEPT
                      !.stage = "merged",
                      !.merged = IF content.version = "v0"
                                 THEN v0_InnerNodeContent_merge(content.split.left,
                                                                content.split.right)
                                 ELSE InnerNodeContent_merge(content.split.left,
                                                             content.split.right)]
    /\ UNCHANGED <<flavor, iw, dw, ops, codec, tw_active>>

NextContent == ContentSplit \/ ContentMerge

SpecContent == InitContent /\ [][NextContent]_vars

(***************************************************************************)
(* The snapshot envelope: tapestry-weave/src/versioning.rs and             *)
(* src/versioning.rs.  A byte is a number in 0..255.  TLC integers are 32  *)
(* bits wide, so a u64 is held as four 16-bit limbs, the most significant  *)
(* first.                                                                  *)
(***************************************************************************)
\* b"VersionedTapestryWeave__"
FORMAT_IDENTIFIER ==
    <<86, 101, 114, 115, 105, 111, 110, 101, 100, 84, 97, 112, 101, 115, 116, 114, 121,
      87, 101, 97, 118, 101, 95, 95>>

FORMAT_IDENTIFIER_LENGTH == Len(FORMAT_IDENTIFIER)

VERSION_LENGTH == 8

DATA_OFFSET == FORMAT_IDENTIFIER_LENGTH + VERSION_LENGTH

\* u64::to_le_bytes: the least significant byte first
to_le_bytes(v) ==
    <<v[4] % 256, v[4] \div 256, v[3] % 256, v[3] \div 256,
      v[2] % 256, v[2] \div 256, v[1] % 256, v[1] \div 256>>

\* u64::from_le_bytes of an array of eight bytes
from_le_bytes(b) ==
    <<b[7] + 256 * b[8], b[5] + 256 * b[6], b[3] + 256 * b[4], b[1] + 256 * b[2]>>

\* The u64 zero
Zero == <<0, 0, 0, 0>>

starts_with(value, prefix) ==
    Len(value) >= Len(prefix) /\ SubSeq(value, 1, Len(prefix)) = prefix

Some(x) == [tag |-> "Some", value |-> x]

NoneValue == [tag |-> "None"]

\* A panic of the call (a slice index out of range)
Panic == [tag |-> "Panic"]

VersionedBytes(version, data) == [version |-> version, data |-> data]

\* VersionedBytes::from_bytes that does not test the length of the input
VersionedBytes_from_bytes_NoLengthCheck(value) ==
    IF starts_with(value, FORMAT_IDENTIFIER)
    THEN LET rest == SubSeq(value, FORMAT_IDENTIFIER_LENGTH + 1, Len(value)) IN
         IF Len(rest) < 8 THEN Panic
         ELSE Some(VersionedBytes(from_le_bytes(SubSeq(rest, 1, 8)),
                                  SubSeq(rest, 9, Len(rest))))
    ELSE NoneValue

\* tapestry-weave VersionedBytes::from_bytes; split_at panics when the slice
\* is shorter than the index
VersionedBytes_from_bytes(value) ==
    IF starts_with(value, FORMAT_IDENTIFIER) /\ Len(value) >= DATA_OFFSET
    THEN LET rest == SubSeq(value, FORMAT_IDENTIFIER_LENGTH + 1, Len(value)) IN
         IF Len(rest) < 8 THEN Panic
         ELSE Some(VersionedBytes(from_le_bytes(SubSeq(rest, 1, 8)),
                                  SubSeq(rest, 9, Len(rest))))
    ELSE NoneValue

\* VersionedBytes::to_bytes that writes the version after the data
VersionedBytes_to_bytes_VersionLast(self) ==
    FORMAT_IDENTIFIER \o self.data \o to_le_bytes(self.version)

\* tapestry-weave VersionedBytes::to_bytes
VersionedBytes_to_bytes(self) ==
    FORMAT_IDENTIFIER \o to_le_bytes(self.version) \o self.data

\* universal-weave VersionedBytes::try_from_bytes
try_from_bytes(value, format_identifier) ==
    IF starts_with(value, format_identifier) /\ Len(value) >= 32
    THEN LET rest == SubSeq(value, 24 + 1, Len(value)) IN
         IF Len(rest) < 8 THEN Panic
         ELSE Some([format_identifier |-> format_identifier,
                    version |-> from_le_bytes(SubSeq(rest, 1, 8)),
                    data |-> SubSeq(rest, 9, Len(rest))])
    ELSE NoneValue

\* universal-weave VersionedBytes::to_bytes, on an empty output
to_bytes(self) == self.format_identifier \o to_le_bytes(self.version) \o self.data

\* The outcomes of VersionedWeave::from_bytes: None, Some(Ok(weave)),
\* Some(Err(error)) or a panic.  Whether the archive in the payload is valid
\* is decided by rkyv, so both outcomes of from_unversioned_bytes are
\* possible.
VersionedWeave_from_bytes(value) ==
    LET versioned == VersionedBytes_from_bytes(value) IN
    IF versioned.tag = "Panic" THEN {"Panic"}
    ELSE IF versioned.tag = "Some"
    THEN IF versioned.value.version = Zero THEN {"Ok", "Err"} ELSE {"None"}
    ELSE {"None"}

\* The largest number of payload bytes of an envelope
MaxPayload == 2

\* The versions written: zero, and values with a byte set in each limb
VersionInputs ==
    {Zero, <<0, 0, 0, 1>>, <<0, 0, 0, 256>>, <<0, 0, 1, 0>>, <<0, 513, 0, 0>>,
     <<65535, 65535, 65535, 65535>>}

PayloadInputs == UNION {[1..n -> {0, 86, 255}] : n \in 0..MaxPayload}

\* The envelopes a writer builds
VersionedInputs == {VersionedBytes(v, d) : v \in VersionInputs, d \in PayloadInputs}

\* The byte strings a reader is handed: envelopes as written, envelopes cut
\* short, and envelopes with one byte of the magic overwritten
ReceivedInputs ==
    LET written == {VersionedBytes_to_bytes(vb) : vb \in VersionedInputs} IN
    written
        \cup UNION {{SubSeq(b, 1, n) : n \in 0..Len(b)} : b \in written}
        \cup {[b EXCEPT ![i] = 0] : b \in written, i \in 1..FORMAT_IDENTIFIER_LENGTH}

InitCodec ==
    /\ flavor = "VersionedBytes"
    /\ iw = EmptyWeave
    /\ dw = EmptyTree
    /\ ops = 0
    /\ content = NoContent
    /\ tw_active = <<>>
    /\ \/ \E vb \in VersionedInputs, api \in {"tapestry-weave", "universal-weave"} :
             codec = [stage |-> "constructed", api |-> api, written |-> Some(vb),
                      bytes |-> <<>>, parsed |-> Unset, loaded |-> "Unset"]
       \/ \E b \in ReceivedInputs, api \in {"tapestry-weave", "universal-weave"} :
             codec = [stage |-> "bytes", api |-> api, written |-> NoneValue,
                      bytes |-> b, parsed |-> Unset, loaded |-> "Unset"]

ToBytes ==
    /\ flavor = "VersionedBytes"
    /\ codec.stage = "constructed"
    /\ codec' = [codec EXCEPT
                    !.stage = "bytes",
                    !.bytes = IF codec.api = "tapestry-weave"
                              THEN VersionedBytes_to_bytes(codec.written.value)
                              ELSE to_bytes([format_identifier |-> FORMAT_IDENTIFIER,
                                             version |-> codec.written.value.version,
                                             data |-> codec.written.value.data])]
    /\ UNCHANGED <<flavor, iw, dw, ops, content, tw_active>>

FromBytes ==
    /\ flavor = "VersionedBytes"
    /\ codec.stage = "bytes"
    /\ codec' = [codec EXCEPT
                    !.stage = "parsed",
                    !.parsed = IF codec.api = "tapestry-weave"
                               THEN VersionedBytes_from_bytes(codec.bytes)
                               ELSE try_from_bytes(codec.bytes, FORMAT_IDENTIFIER)]
    /\ UNCHANGED <<flavor, iw, dw, ops, content, tw_active>>

VersionedWeaveFromBytes ==
    /\ flavor = "VersionedBytes"
    /\ codec.stage = "bytes"
    /\ codec.api = "tapestry-weave"
    /\ \E outcome \in VersionedWeave_from_bytes(codec.bytes) :
          codec' = [codec EXCEPT !.stage = "loaded", !.loaded = outcome]
    /\ UNCHANGED <<flavor, iw, dw, ops, content, tw_active>>

NextCodec == ToBytes \/ FromBytes \/ VersionedWeaveFromBytes

SpecCodec == InitCodec /\ [][NextCodec]_vars

(***************************************************************************)
(* TapestryWeave of tapestry-weave v1: an IndependentWeave (iw) and the    *)
(* cached active thread (tw_active).  The flags `changed` and              *)
(* `changed_shape` only tell a user interface to redraw and are left out.  *)
(***************************************************************************)
TapestryWeave(weave, active) == [weave |-> weave, active |-> active]

\* siblings_from_active_parents: the children, other than the node, of its
\* active parents
siblings_from_active_parents(W, node) ==
    ChildrenOfAll(W,
                  SelectSeq(node.from,
                            LAMBDA p : p \in DOMAIN W.nodes /\ W.nodes[p].active),
                  node.id)

\* IndependentWeave::find_duplicates, as the list it yields
I_find_duplicates(W, id) ==
    IF id \notin DOMAIN W.nodes THEN <<>>
    ELSE LET node == W.nodes[id]
             iter == IF node.active /\ node.from # <<>>
                     THEN SelectSeq(siblings_from_active_parents(W, node),
                                    LAMBDA s : s \in DOMAIN W.nodes)
                     ELSE SelectSeq(sibling_ids_from_all_parents_including_roots(W, node),
                                    LAMBDA s : s \in DOMAIN W.nodes)
         IN SelectSeq(iter, LAMBDA s : node.contents = W.nodes[s].contents)

update_shape_and_active(self) ==
    [self EXCEPT !.active = I_get_active_thread(self.weave)]

\* for duplicate in &duplicates { if last_active_set.contains(duplicate) { .. break } }
FirstDuplicateIn(duplicates, last_active_set) ==
    LET found == SelectSeq(duplicates, LAMBDA d : d \in last_active_set) IN
    IF found = <<>> THEN None ELSE found[1]

\* if !duplicates.is_empty() { ... self.weave.remove_node(&identifier); }
RemoveDuplicate(W, identifier, is_active, last_active_set, duplicates) ==
    IF duplicates = <<>> THEN W
    ELSE IF ~is_active THEN I_remove_node(W, identifier).w
    ELSE I_remove_node(
             I_set_node_active_status_in_place(
                 W,
                 IF FirstDuplicateIn(duplicates, last_active_set) # None
                 THEN FirstDuplicateIn(duplicates, last_active_set)
                 ELSE duplicates[1],
                 TRUE).w,
             identifier).w

\* if status { ...; self.update_shape_and_active(); } status
AfterAdd(self, node, last_active_set, added) ==
    IF ~added.ret THEN [t |-> [self EXCEPT !.weave = added.w], ret |-> FALSE]
    ELSE [t |-> update_shape_and_active(
                    [self EXCEPT !.weave =
                        RemoveDuplicate(added.w, node.id, node.active, last_active_set,
                                        I_find_duplicates(added.w, node.id))]),
          ret |-> TRUE]

T_add_node(self, node) ==
    AfterAdd(self, node, IF node.active THEN Range(self.active) ELSE {},
             I_add_node(self.weave, node))

T_set_node_active_status(self, id, value, alternate) ==
    LET r == I_set_node_active_status(self.weave, id, value, alternate) IN
    IF r.ret THEN [t |-> update_shape_and_active([self EXCEPT !.weave = r.w]), ret |-> TRUE]
    ELSE [t |-> [self EXCEPT !.weave = r.w], ret |-> FALSE]

T_set_node_active_status_in_place(self, id, value) ==
    LET r == I_set_node_active_status_in_place(self.weave, id, value) IN
    IF r.ret THEN [t |-> update_shape_and_active([self EXCEPT !.weave = r.w]), ret |-> TRUE]
    ELSE [t |-> [self EXCEPT !.weave = r.w], ret |-> FALSE]

T_set_node_bookmarked_status(self, id, value) ==
    LET r == I_set_node_bookmarked_status(self.weave, id, value) IN
    [t |-> [self EXCEPT !.weave = r.w], ret |-> r.ret]

T_split_node_direct(self, id, at, new_id) ==
    LET r == I_split_node(self.weave, id, at, new_id) IN
    IF r.ret
    THEN LET W1 == [r.w EXCEPT !.nodes[id].contents.modified = TRUE,
                               !.nodes[new_id].contents.modified = TRUE]
         IN [t |-> update_shape_and_active([self EXCEPT !.weave = W1]), ret |-> new_id]
    ELSE [t |-> [self EXCEPT !.weave = r.w], ret |-> None]

\* The end of split_node: r is the result of the weave's split_node on the
\* node id with the new node new_id
AfterSplit(self, r, id, new_id) ==
    IF r.ret
    THEN LET W1 == [r.w EXCEPT !.nodes[id].contents.modified = TRUE,
                               !.nodes[new_id].contents.modified = TRUE]
         IN [t |-> update_shape_and_active([self EXCEPT !.weave = W1]),
             ret |-> Some(<<id, new_id>>)]
    ELSE [t |-> [self EXCEPT !.weave = r.w], ret |-> NoneValue]

\* split_node: from and to are the ids that Ulid::from_datetime hands out.
\* With duplicate set, a copy of the node is added under the id `from` and
\* the copy is split; otherwise the node itself is split and `to` is the id
\* of its new right half.
T_split_node(self, id, at, duplicate, from, to) ==
    IF duplicate
    THEN IF id \in DOMAIN self.weave.nodes
         THEN AfterSplit(self,
                         I_split_node(
                             I_add_node(self.weave,
                                        [self.weave.nodes[id] EXCEPT !.id = from,
                                                                     !.bookmarked = FALSE]).w,
                             from, at, to),
                         from, to)
         ELSE [t |-> self, ret |-> NoneValue]
    ELSE AfterSplit(self, I_split_node(self.weave, id, at, to), id, to)

T_merge_with_parent(self, id) ==
    LET r == I_merge_with_parent(self.weave, id) IN
    IF r.ret # None
    THEN LET W1 == [r.w EXCEPT !.nodes[r.ret].contents.modified = TRUE]
         IN [t |-> update_shape_and_active([self EXCEPT !.weave = W1]), ret |-> TRUE]
    ELSE [t |-> [self EXCEPT !.weave = r.w], ret |-> FALSE]

\* is_mergeable_with_parent_u128 without the test that the parent has one child
T_is_mergeable_with_parent_AnyChildren(self, id) ==
    IF id \in DOMAIN self.weave.nodes
    THEN LET node == self.weave.nodes[id] IN
         IF Len(node.from) = 1 /\ node.from[1] \in DOMAIN self.weave.nodes
         THEN NodeContent_is_mergeable_with(self.weave.nodes[node.from[1]].contents,
                                            node.contents)
         ELSE FALSE
    ELSE FALSE

\* is_mergeable_with_parent_u128
T_is_mergeable_with_parent(self, id) ==
    IF id \in DOMAIN self.weave.nodes
    THEN LET node == self.weave.nodes[id] IN
         IF Len(node.from) = 1 /\ node.from[1] \in DOMAIN self.weave.nodes
         THEN LET parent == self.weave.nodes[node.from[1]]
              IN  Len(parent.to) = 1
                  /\ NodeContent_is_mergeable_with(parent.contents, node.contents)
         ELSE FALSE
    ELSE FALSE

T_remove_node(self, id) ==
    LET r == I_remove_node(self.weave, id) IN
    IF r.ret THEN [t |-> update_shape_and_active([self EXCEPT !.weave = r.w]), ret |-> TRUE]
    ELSE [t |-> [self EXCEPT !.weave = r.w], ret |-> FALSE]

T_sort_roots_by(self, order) ==
    [t |-> [self EXCEPT !.weave = I_sort_roots_by(self.weave, order).w], ret |-> TRUE]

T_sort_node_children_by(self, id, order) ==
    LET r == I_sort_node_children_by(self.weave, id, order) IN
    [t |-> [self EXCEPT !.weave = r.w], ret |-> r.ret]

IsTapestry == flavor = "TapestryWeave" /\ ops < MaxOps

T_Do(r) ==
    /\ iw' = r.t.weave
    /\ tw_active' = r.t.active
    /\ ops' = ops + 1
    /\ UNCHANGED <<flavor, dw, content, codec>>

T_AddNode ==
    /\ IsTapestry
    /\ \E id \in NewIds(iw), from \in IdLists(iw), to \in IdLists(iw), n \in InputNodes :
          /\ KeepsAcyclic(iw, from, to)
          /\ T_Do(T_add_node(TapestryWeave(iw, tw_active),
                             IndependentNode(id, from, to, n.active, n.bookmarked,
                                             n.contents)))

T_SetNodeActiveStatus ==
    /\ IsTapestry
    /\ \E id \in DOMAIN iw.nodes, value \in BOOLEAN, alternate \in BOOLEAN :
          T_Do(T_set_node_active_status(TapestryWeave(iw, tw_active), id, value, alternate))

T_SetNodeActiveStatusInPlace ==
    /\ IsTapestry
    /\ \E id \in DOMAIN iw.nodes, value \in BOOLEAN :
          T_Do(T_set_node_active_status_in_place(TapestryWeave(iw, tw_active), id, value))

T_SetNodeBookmarkedStatus ==
    /\ IsTapestry
    /\ \E id \in DOMAIN iw.nodes, value \in BOOLEAN :
          T_Do(T_set_node_bookmarked_status(TapestryWeave(iw, tw_active), id, value))

T_SplitNodeDirect ==
    /\ IsTapestry
    /\ \E id \in DOMAIN iw.nodes, at \in 0..MaxAt, new_id \in NewIds(iw) :
          T_Do(T_split_node_direct(TapestryWeave(iw, tw_active), id, at, new_id))

\* The two ids handed out by the id generator are new to the weave and differ
T_SplitNode ==
    /\ IsTapestry
    /\ \E id \in DOMAIN iw.nodes, at \in 0..MaxAt, duplicate \in BOOLEAN :
          \E from \in Ids \ DOMAIN iw.nodes :
             \E to \in Ids \ (DOMAIN iw.nodes \cup {from}) :
                T_Do(T_split_node(TapestryWeave(iw, tw_active), id, at, duplicate, from, to))

T_MergeWithParent ==
    /\ IsTapestry
    /\ \E id \in DOMAIN iw.nodes :
          T_Do(T_merge_with_parent(TapestryWeave(iw, tw_active), id))

T_RemoveNode ==
    /\ IsTapestry
    /\ \E id \in DOMAIN iw.nodes : T_Do(T_remove_node(TapestryWeave(iw, tw_active), id))

T_SortRootsBy ==
    /\ IsTapestry
    /\ \E order \in SortInputs(iw, iw.roots) :
          T_Do(T_sort_roots_by(TapestryWeave(iw, tw_active), order))

T_SortNodeChildrenBy ==
    /\ IsTapestry
    /\ \E id \in DOMAIN iw.nodes :
          \E order \in SortInputs(iw, iw.nodes[id].to) :
             T_Do(T_sort_node_children_by(TapestryWeave(iw, tw_active), id, order))

NextTapestry ==
    \/ T_AddNode
    \/ T_SetNodeActiveStatus
    \/ T_SetNodeActiveStatusInPlace
    \/ T_SetNodeBookmarkedStatus
    \/ T_SplitNodeDirect
    \/ T_SplitNode
    \/ T_MergeWithParent
    \/ T_RemoveNode
    \/ T_SortRootsBy
    \/ T_SortNodeChildrenBy

InitTapestry ==
    /\ flavor = "TapestryWeave"
    /\ iw = EmptyWeave
    /\ dw = EmptyTree
    /\ ops = 0
    /\ content = NoContent
    /\ codec = NoCodec
    /\ tw_active = <<>>

SpecTapestry == InitTapestry /\ [][NextTapestry]_vars

(***************************************************************************)
(* TapestryWeave of tapestry-weave v0: a tree weave (dw) of the legacy     *)
(* DependentWeave.  The code of legacy_dependent is not part of the        *)
(* sources at hand; its operations (L_...) follow the description of the   *)
(* tree weave in the specification, section 4.3.  The node type            *)
(* (DependentNode), the payloads and the TapestryWeave layer (v0_...)      *)
(* follow the code.  Bookmarks enter the weave with the nodes added; the   *)
(* operation that toggles them is not among the calls explored.            *)
(***************************************************************************)
v0_NodeContent(inner, metadata, model) ==
    [content |-> inner, metadata |-> metadata, model |-> model]

v0_NodeContent_split(c, at) ==
    LET r == v0_InnerNodeContent_split(c.content, at) IN
    IF r.tag = "Two"
    THEN Two([c EXCEPT !.content = r.left],
             v0_NodeContent(r.right, c.metadata, c.model))
    ELSE One([c EXCEPT !.content = r.value])

v0_NodeContent_merge(a, b) ==
    IF a.metadata # b.metadata \/ a.model # b.model THEN Two(a, b)
    ELSE LET r == v0_InnerNodeContent_merge(a.content, b.content) IN
         IF r.tag = "Two"
         THEN Two([a EXCEPT !.content = r.left], [b EXCEPT !.content = r.right])
         ELSE One([a EXCEPT !.content = r.value])

\* InnerNodeContent::len
v0_InnerNodeContent_len(c) == IF c.kind = "Snippet" THEN Len(c.data) ELSE SumLen(c.data)

\* add_node: fails on a present id, a node that breaks its local invariants,
\* a node with children or a missing parent; links the node under its parent
\* or into roots; an active node takes the active role from the previous one
L_add_node(W, n) ==
    IF \/ n.id \in DOMAIN W.nodes
       \/ ~DependentNode_validate(n)
       \/ n.to # <<>>
       \/ (n.from # None /\ n.from \notin DOMAIN W.nodes)
    THEN [w |-> W, ret |-> FALSE]
    ELSE LET W1 == IF n.active /\ W.active # None
                   THEN [W EXCEPT !.nodes[W.active].active = FALSE]
                   ELSE W
             W2 == IF n.from = None THEN [W1 EXCEPT !.roots = Append(@, n.id)]
                   ELSE [W1 EXCEPT !.nodes[n.from].to = Append(@, n.id)]
         IN [w |-> [W2 EXCEPT !.nodes = InsertKey(@, n.id, n),
                              !.active = IF n.active THEN n.id ELSE @,
                              !.bookmarked = IF n.bookmarked THEN Insert(@, n.id) ELSE @],
             ret |-> TRUE]

\* The node id and all its descendants
L_Subtree(W, id) == Descendants(W.nodes, {id}, Cardinality(DOMAIN W.nodes))

\* remove_node: removes the node and all its descendants; if a removed node
\* was active, active moves to the parent of the removed subtree root, or
\* becomes empty when that root had no parent; returns the removed root node
L_remove_node(W, id) ==
    IF id \notin DOMAIN W.nodes THEN [w |-> W, ret |-> NoneValue]
    ELSE LET node == W.nodes[id]
             removed == L_Subtree(W, id)
             kept == [k \in (DOMAIN W.nodes) \ removed |-> W.nodes[k]]
             unlinked == IF node.from = None THEN kept
                         ELSE [kept EXCEPT ![node.from].to = ShiftRemove(@, id)]
             moves == W.active # None /\ W.active \in removed
             nodes == IF moves /\ node.from # None
                      THEN [unlinked EXCEPT ![node.from].active = TRUE]
                      ELSE unlinked
         IN [w |-> [nodes |-> nodes,
                    roots |-> ShiftRemove(W.roots, id),
                    active |-> IF moves THEN node.from ELSE W.active,
                    bookmarked |-> SelectSeq(W.bookmarked, LAMBDA b : b \notin removed)],
             ret |-> Some(node)]

\* set_node_active_status_in_place: setting true clears the previous active
\* node's flag, sets this node's flag and updates active; setting false on
\* the active node clears active; returns whether the id existed
L_set_node_active_status_in_place(W, id, value) ==
    IF id \notin DOMAIN W.nodes THEN [w |-> W, ret |-> FALSE]
    ELSE IF value
    THEN LET W1 == IF W.active # None
                   THEN [W EXCEPT !.nodes[W.active].active = FALSE]
                   ELSE W
         IN [w |-> [W1 EXCEPT !.nodes[id].active = TRUE, !.active = id], ret |-> TRUE]
    ELSE IF W.active = id
    THEN [w |-> [W EXCEPT !.nodes[id].active = FALSE, !.active = None], ret |-> TRUE]
    ELSE [w |-> W, ret |-> TRUE]

\* set_node_active_status: both modes delegate to the in-place operation
L_set_node_active_status(W, id, value, alternate) ==
    L_set_node_active_status_in_place(W, id, value)

\* get_thread_from: the ids from id upwards along parent links, ending at a
\* root; empty when id is absent
RECURSIVE L_get_thread_from(_, _)
L_get_thread_from(W, id) ==
    IF id = None \/ id \notin DOMAIN W.nodes THEN <<>>
    ELSE <<id>> \o L_get_thread_from(W, W.nodes[id].from)

L_get_active_thread(W) == L_get_thread_from(W, W.active)

\* for each child of the split node: its parent becomes the new node
RECURSIVE L_Reparent(_, _, _)
L_Reparent(nodes, children, parent) ==
    IF children = <<>> THEN nodes
    ELSE L_Reparent([nodes EXCEPT ![children[1]].from = parent], Tail(children), parent)

\* split_node: the original node keeps the left half and gets the new node
\* as its only child; the new node carries the right half and the children
\* of the original; the active and bookmarked flags stay on the original
L_split_node(W, id, at, new_id) ==
    IF new_id = id \/ new_id \in DOMAIN W.nodes \/ id \notin DOMAIN W.nodes
    THEN [w |-> W, ret |-> FALSE]
    ELSE LET node == W.nodes[id]
             r == v0_NodeContent_split(node.contents, at)
         IN IF r.tag = "One" THEN [w |-> W, ret |-> FALSE]
            ELSE LET left_node == [node EXCEPT !.contents = r.left, !.to = <<new_id>>]
                     right_node == DependentNode(new_id, id, node.to, FALSE, FALSE, r.right)
                     nodes == L_Reparent(W.nodes, node.to, new_id)
                 IN [w |-> [W EXCEPT !.nodes = InsertKey([nodes EXCEPT ![id] = left_node],
                                                         new_id, right_node)],
                     ret |-> TRUE]

\* merge_with_parent: when the node has a parent whose only child it is and
\* the payloads merge into one, the parent takes the merged payload, the
\* children and the active role of the node; the node's bookmark is dropped
L_merge_with_parent(W, id) ==
    IF id \notin DOMAIN W.nodes THEN [w |-> W, ret |-> None]
    ELSE LET node == W.nodes[id] IN
         IF node.from = None THEN [w |-> W, ret |-> None]
         ELSE LET parent == W.nodes[node.from]
                  r == v0_NodeContent_merge(parent.contents, node.contents)
              IN IF parent.to # <<id>> \/ r.tag = "Two" THEN [w |-> W, ret |-> None]
                 ELSE LET rest == L_Reparent(RemoveKey(W.nodes, id), node.to, parent.id)
                          merged == [parent EXCEPT
                                        !.contents = r.value,
                                        !.to = node.to,
                                        !.active = parent.active \/ node.active]
                      IN [w |-> [W EXCEPT
                                    !.nodes = [rest EXCEPT ![parent.id] = merged],
                                    !.active = IF W.active = id THEN parent.id ELSE @,
                                    !.bookmarked = ShiftRemove(@, id)],
                          ret |-> parent.id]

\* find_duplicates: the siblings (children of the same parent, or the other
\* roots) whose contents are duplicates of the node's
L_find_duplicates(W, id) ==
    IF id \notin DOMAIN W.nodes THEN <<>>
    ELSE LET node == W.nodes[id]
             siblings == IF node.from = None THEN ShiftRemove(W.roots, id)
                         ELSE ShiftRemove(W.nodes[node.from].to, id)
         IN SelectSeq(siblings, LAMBDA k : W.nodes[k].contents = node.contents)

\* v0 TapestryWeave::add_node
v0_add_node(W, node) ==
    LET identifier == node.id
        last_active_set == IF node.active THEN Range(L_get_active_thread(W)) ELSE {}
        is_active == node.active
        added == L_add_node(W, node)
        duplicates == L_find_duplicates(added.w, identifier)
        preferred == FirstDuplicateIn(duplicates, last_active_set)
        W1 == IF duplicates = <<>> THEN added.w
              ELSE LET W0 == IF ~is_active THEN added.w
                             ELSE IF preferred # None
                             THEN L_set_node_active_status_in_place(
                                      added.w, preferred, TRUE).w
                             ELSE L_set_node_active_status_in_place(
                                      added.w, duplicates[1], TRUE).w
                   IN L_remove_node(W0, identifier).w
    IN [w |-> W1, ret |-> added.ret]

v0_set_node_active_status(W, id, value) == L_set_node_active_status(W, id, value, FALSE)

v0_split_node(W, id, at, new_id) == L_split_node(W, id, at, new_id)

v0_merge_with_parent(W, id) ==
    LET r == L_merge_with_parent(W, id) IN [w |-> r.w, ret |-> r.ret # None]

\* v0 NodeContent::is_mergeable_with, with InnerNodeContent::is_mergeable_with
v0_NodeContent_is_mergeable_with(a, b) ==
    IF a.metadata # b.metadata \/ a.model # b.model THEN FALSE
    ELSE \/ a.content.kind = "Snippet" /\ b.content.kind = "Snippet"
         \/ a.content.kind = "Tokens" /\ b.content.kind = "Tokens"

\* v0 TapestryWeave::is_mergeable_with_parent
v0_is_mergeable_with_parent(W, id) ==
    IF id \in DOMAIN W.nodes
    THEN LET node == W.nodes[id] IN
         IF node.from # None /\ node.from \in DOMAIN W.nodes
         THEN LET parent == W.nodes[node.from]
              IN  Len(parent.to) = 1
                  /\ v0_NodeContent_is_mergeable_with(parent.contents, node.contents)
         ELSE FALSE
    ELSE FALSE

v0_remove_node(W, id) == L_remove_node(W, id)

\* The bytes of the nodes of a thread, in the order of the list
RECURSIVE ThreadBytes(_, _)
ThreadBytes(W, thread) ==
    IF thread = <<>> THEN <<>>
    ELSE (IF thread[1] \in DOMAIN W.nodes
          THEN v0_InnerNodeContent_as_bytes(W.nodes[thread[1]].contents.content)
          ELSE <<>>)
         \o ThreadBytes(W, Tail(thread))

v0_get_active_content(W) == ThreadBytes(W, Reverse(L_get_active_thread(W)))

\* The ids the generator of a caller hands out: set_active_content asks for
\* at most two ids in one call, one for a split and one for the new leaf
GeneratorIds == 1..(NumIds + 2)

\* The id generator: an id that is not in the weave
id_generator(W) ==
    CHOOSE id \in GeneratorIds \ DOMAIN W.nodes :
        \A other \in GeneratorIds \ DOMAIN W.nodes : id <= other

\* while offset < value_len && offset < content_len + start_offset
\*       && value[offset] == content_bytes[offset - start_offset] { offset += 1 }
RECURSIVE CommonPrefix_NoCompare(_, _, _, _)
RECURSIVE CommonPrefix(_, _, _, _)
\* The scan without the comparison of the bytes
CommonPrefix_NoCompare(value, content_bytes, start_offset, offset) ==
    IF offset < Len(value) /\ offset < Len(content_bytes) + start_offset
    THEN CommonPrefix_NoCompare(value, content_bytes, start_offset, offset + 1)
    ELSE offset

CommonPrefix(value, content_bytes, start_offset, offset) ==
    IF /\ offset < Len(value)
       /\ offset < Len(content_bytes) + start_offset
       /\ value[offset + 1] = content_bytes[offset - start_offset + 1]
    THEN CommonPrefix(value, content_bytes, start_offset, offset + 1)
    ELSE offset

\* for active_identifier in active_thread { ... }: st holds the weave, offset,
\* last_node, modified and whether an assertion has failed
RECURSIVE WalkActiveThread(_, _, _)
WalkActiveThread(active_thread, value, st) ==
    IF active_thread = <<>> THEN st
    ELSE LET node == st.w.nodes[active_thread[1]]
             content_bytes == v0_InnerNodeContent_as_bytes(node.contents.content)
             content_len == Len(content_bytes)
         IN IF /\ Len(value) >= st.offset + content_len
               /\ SubSeq(value, st.offset + 1, st.offset + content_len) = content_bytes
            THEN WalkActiveThread(Tail(active_thread), value,
                                  [st EXCEPT !.offset = @ + content_len,
                                             !.last_node = node.id])
            ELSE LET start_offset == st.offset
                     offset == CommonPrefix(value, content_bytes, start_offset, st.offset)
                     target == node.id
                 IN IF offset > start_offset
                    THEN IF offset > 0
                         THEN LET s == L_split_node(st.w, target, offset - start_offset,
                                                    id_generator(st.w))
                              IN IF ~s.ret THEN [st EXCEPT !.panic = TRUE]
                                 ELSE [st EXCEPT !.w = s.w, !.offset = offset,
                                                 !.last_node = target, !.modified = TRUE]
                         ELSE [st EXCEPT !.offset = offset, !.last_node = None,
                                         !.modified = TRUE]
                    ELSE [st EXCEPT !.modified = TRUE]

\* The steps of v0 TapestryWeave::set_active_content after the loop.  A
\* result holds the weave, the value returned, whether an assertion failed
\* and whether the subtraction from `offset` went below zero.

\* assert!(self.add_node(..)); modified = true;
Appended(added) ==
    [w |-> added.w, ret |-> TRUE, panic |-> ~added.ret, underflow |-> FALSE]

\* if offset < value.len() { assert!(self.add_node(DependentNode { .. })); .. } modified
AppendRest(W, value, metadata, last_node, offset, modified) ==
    IF offset < 0
    THEN [w |-> W, ret |-> modified, panic |-> FALSE, underflow |-> TRUE]
    ELSE IF offset < Len(value)
    THEN Appended(v0_add_node(W,
             DependentNode(id_generator(W), last_node, <<>>, TRUE, FALSE,
                           v0_NodeContent(Snippet(SubSeq(value, offset + 1, Len(value))),
                                          metadata, None))))
    ELSE [w |-> W, ret |-> modified, panic |-> FALSE, underflow |-> FALSE]

\* if let Some(node) = self.weave.remove_node(&identifier) { offset -= node...len(); }
AfterRemove(removed, from, value, metadata, offset, modified) ==
    AppendRest(removed.w, value, metadata, from,
               IF removed.ret.tag = "Some"
               THEN offset - v0_InnerNodeContent_len(removed.ret.value.contents.content)
               ELSE offset,
               modified)

\* The condition under which the last node kept is removed again
Collapses(W, last_node, metadata) ==
    /\ last_node # None
    /\ last_node \in DOMAIN W.nodes
    /\ Len(W.nodes[last_node].to) <= 1
    /\ \A c \in Range(W.nodes[last_node].to) :
          c \in DOMAIN W.nodes => W.nodes[c].to = <<>>
    /\ ~W.nodes[last_node].bookmarked
    /\ W.nodes[last_node].contents.model = None
    /\ W.nodes[last_node].contents.metadata = metadata

\* if let Some(node) = last_node.and_then(..) && .. { last_node = node.from; .. }
RemoveLastNode(W, value, metadata, last_node, offset, modified) ==
    IF Collapses(W, last_node, metadata)
    THEN AfterRemove(L_remove_node(W, last_node), W.nodes[last_node].from,
                     value, metadata, offset, modified)
    ELSE AppendRest(W, value, metadata, last_node, offset, modified)

\* if let Some(last_node) = last_node { set active } else if let Some(active_node) ..
AfterWalk(st, active_node, value, metadata) ==
    IF st.panic
    THEN [w |-> st.w, ret |-> st.modified, panic |-> TRUE, underflow |-> FALSE]
    ELSE RemoveLastNode(
             IF st.last_node # None
             THEN L_set_node_active_status(st.w, st.last_node, TRUE, FALSE).w
             ELSE IF active_node # None
             THEN L_set_node_active_status(st.w, active_node, FALSE, FALSE).w
             ELSE st.w,
             value, metadata, st.last_node, st.offset, st.modified)

\* active_thread.iter().copied().last()
LastOf(thread) == IF thread = <<>> THEN None ELSE thread[Len(thread)]

\* v0 TapestryWeave::set_active_content
v0_set_active_content(W, value, metadata) ==
    AfterWalk(WalkActiveThread(Reverse(L_get_active_thread(W)), value,
                               [w |-> W, offset |-> 0, last_node |-> None,
                                modified |-> FALSE, panic |-> FALSE]),
              LastOf(Reverse(L_get_active_thread(W))), value, metadata)

\* The nodes a caller hands to the v0 add_node, before it names their id and
\* parent: a snippet that set_active_content may remove again, a token list
\* with other metadata, and a bookmarked snippet with a model
v0_InputNodes ==
    {[active |-> TRUE, bookmarked |-> FALSE,
      contents |-> v0_NodeContent(Snippet(<<1, 2>>), 0, None)],
     [active |-> TRUE, bookmarked |-> FALSE,
      contents |-> v0_NodeContent(Tokens(<<v0_Token(<<2>>, 0), v0_Token(<<1, 2>>, 1)>>),
                                  1, None)],
     [active |-> TRUE, bookmarked |-> TRUE,
      contents |-> v0_NodeContent(Snippet(<<2, 1>>), 0, 1)]}

\* The targets of the calls of set_active_content that build the weaves
\* explored: the empty sequence, a prefix of the snippets and a sequence that
\* diverges from them after two bytes
ReconcileInputs == {<<>>, <<1>>, <<1, 2, 1>>}

IsV0 == flavor = "v0_TapestryWeave" /\ ops < MaxOps

V0_Do(r) ==
    dw' = r.w /\ ops' = ops + 1 /\ UNCHANGED <<flavor, iw, content, codec, tw_active>>

V0_AddNode ==
    /\ IsV0
    /\ \E id \in NewIds(dw), from \in ParentInputs(dw), n \in v0_InputNodes :
          V0_Do(v0_add_node(dw, DependentNode(id, from, <<>>, n.active, n.bookmarked,
                                              n.contents)))

V0_SetNodeActiveStatus ==
    /\ IsV0
    /\ \E id \in DOMAIN dw.nodes, value \in BOOLEAN :
          V0_Do(v0_set_node_active_status(dw, id, value))

\* set_active_content is called while the generator has two ids to hand out;
\* a call that fails an assertion does not return
V0_SetActiveContent ==
    /\ IsV0
    /\ Cardinality(GeneratorIds \ DOMAIN dw.nodes) >= 2
    /\ \E value \in ReconcileInputs, metadata \in MetadataInputs :
          LET r == v0_set_active_content(dw, value, metadata) IN
          ~r.panic /\ ~r.underflow /\ V0_Do(r)

V0_SplitNode ==
    /\ IsV0
    /\ \E id \in DOMAIN dw.nodes, at \in 0..MaxAt, new_id \in NewIds(dw) :
          V0_Do(v0_split_node(dw, id, at, new_id))

V0_MergeWithParent ==
    /\ IsV0
    /\ \E id \in DOMAIN dw.nodes : V0_Do(v0_merge_with_parent(dw, id))

V0_RemoveNode ==
    /\ IsV0
    /\ \E id \in DOMAIN dw.nodes : V0_Do(v0_remove_node(dw, id))

NextV0 ==
    \/ V0_AddNode
    \/ V0_SetNodeActiveStatus
    \/ V0_SetActiveContent
    \/ V0_SplitNode
    \/ V0_MergeWithParent
    \/ V0_RemoveNode

InitV0 ==
    /\ flavor = "v0_TapestryWeave"
    /\ iw = EmptyWeave
    /\ dw = EmptyTree
    /\ ops = 0
    /\ content = NoContent
    /\ codec = NoCodec
    /\ tw_active = <<>>

SpecV0 == InitV0 /\ [][NextV0]_vars

(***************************************************************************)
(* The two application weaves side by side: the weave is a TapestryWeave   *)
(* of v1 or of v0, and each takes the calls of its own layer.              *)
(***************************************************************************)
InitApplication == InitTapestry \/ InitV0

NextApplication == NextTapestry \/ NextV0

SpecApplication == InitApplication /\ [][NextApplication]_vars

(***************************************************************************)
(* Properties of IndependentWeave (the DAG weave), checked under SpecDag.  *)
(***************************************************************************)

\* C1: DagWeave flag/set agreement.  After any sequence of public operations,
\* for every node n: n.active is true iff n.id is in the weave's active set,
\* and n.bookmarked is true iff n.id is in the bookmarked set.
C1_FlagSetAgreement ==
    \A k \in DOMAIN iw.nodes :
        /\ iw.nodes[k].active <=> (iw.nodes[k].id \in iw.active)
        /\ iw.nodes[k].bookmarked <=> Contains(iw.bookmarked, iw.nodes[k].id)

\* C2: DagWeave root membership.  An id is in roots iff that node's parents
\* set is empty; and when add_node inserts a node n whose `to` names
\* already-present root nodes, each of those nodes is removed from roots and
\* gains n.id as a parent.
C2_RootMembership ==
    /\ \A k \in DOMAIN iw.nodes : Contains(iw.roots, k) <=> (iw.nodes[k].from = <<>>)
    /\ \A id \in NewIds(iw), from, to \in IdLists(iw) :
           LET r == I_add_node(iw, IndependentNode(id, from, to, FALSE, FALSE, LinkContents))
           IN r.ret => \A c \in Range(to) :
                           Contains(iw.roots, c) =>
                               /\ ~Contains(r.w.roots, c)
                               /\ Contains(r.w.nodes[c].from, id)

\* The active children of a node: the children whose ids are in the active set
ActiveChildren(W, k) == {c \in Range(W.nodes[k].to) : c \in W.active}

\* C3: DagWeave active-path invariant (no fork).  Every active node has at
\* most one active child.
C3_NoFork ==
    \A k \in DOMAIN iw.nodes :
        k \in iw.active => Cardinality(ActiveChildren(iw, k)) <= 1

\* C4: DagWeave active-path invariant (no orphan).  Every active node that
\* has at least one parent has at least one active parent.
C4_NoOrphan ==
    \A k \in DOMAIN iw.nodes :
        (iw.nodes[k].active /\ iw.nodes[k].from # <<>>)
            => \E p \in Range(iw.nodes[k].from) : p \in iw.active

\* C5: DagWeave structural consistency.  Every id in any parents/children
\* set, in roots, in bookmarked and in the active set is a key of nodes, and
\* b is in children(a) iff a is in parents(b).
C5_StructuralConsistency ==
    /\ Range(iw.roots) \subseteq DOMAIN iw.nodes
    /\ Range(iw.bookmarked) \subseteq DOMAIN iw.nodes
    /\ iw.active \subseteq DOMAIN iw.nodes
    /\ \A k \in DOMAIN iw.nodes :
           /\ Range(iw.nodes[k].from) \subseteq DOMAIN iw.nodes
           /\ Range(iw.nodes[k].to) \subseteq DOMAIN iw.nodes
    /\ \A a, b \in DOMAIN iw.nodes :
           Contains(iw.nodes[a].to, b) <=> Contains(iw.nodes[b].from, a)

(***************************************************************************)
(* Properties of DependentWeave (the tree weave), checked under SpecTree.  *)
(***************************************************************************)

\* The nodes that list k among their children
ParentsListing(W, k) == {p \in DOMAIN W.nodes : Contains(W.nodes[p].to, k)}

\* C6: TreeWeave structural invariants.  After any sequence of public
\* operations every referenced id is in nodes, nodes[k].id = k, a node's
\* parent lists it as a child and each child names it as its parent, k is in
\* roots iff its parent is absent, and every node has at most one parent.
C6_TreeStructure ==
    /\ Range(dw.roots) \subseteq DOMAIN dw.nodes
    /\ Range(dw.bookmarked) \subseteq DOMAIN dw.nodes
    /\ dw.active # None => dw.active \in DOMAIN dw.nodes
    /\ \A k \in DOMAIN dw.nodes :
           LET node == dw.nodes[k] IN
           /\ node.id = k
           /\ node.from # None =>
                  /\ node.from \in DOMAIN dw.nodes
                  /\ Contains(dw.nodes[node.from].to, k)
           /\ \A c \in Range(node.to) :
                  c \in DOMAIN dw.nodes /\ dw.nodes[c].from = k
           /\ Contains(dw.roots, k) <=> (node.from = None)
           /\ Cardinality(ParentsListing(dw, k)) <= 1

\* C6 witness: a tree of three nodes on two or three levels, reached after a
\* removal, split or merge has rewritten the links at least once
C6_Witness ==
    /\ flavor = "DependentWeave"
    /\ Cardinality(DOMAIN dw.nodes) = 3
    /\ \E k \in DOMAIN dw.nodes :
           /\ dw.nodes[k].from # None
           /\ dw.nodes[k].to # <<>>
           /\ dw.nodes[k].contents.modified

\* C7: TreeWeave flag consistency.  At most one node has active = TRUE and
\* it is exactly the node named by the weave's `active` field (no node is
\* flagged when `active` is None); a node's bookmarked flag is true iff its
\* id is in the bookmarked set.
C7_TreeFlags ==
    /\ \A k \in DOMAIN dw.nodes :
           /\ dw.nodes[k].active <=> (dw.active = k)
           /\ dw.nodes[k].bookmarked <=> Contains(dw.bookmarked, k)
    /\ Cardinality({k \in DOMAIN dw.nodes : dw.nodes[k].active}) <= 1

\* C7 witness: the active node is a merged node (its contents are modified),
\* next to a bookmarked node that is not active
C7_Witness ==
    /\ flavor = "DependentWeave"
    /\ dw.active # None
    /\ dw.active \in DOMAIN dw.nodes
    /\ dw.nodes[dw.active].active
    /\ dw.nodes[dw.active].contents.modified
    /\ \E k \in DOMAIN dw.nodes : k # dw.active /\ dw.nodes[k].bookmarked

\* k is id or a descendant of id, following parent links upwards from k
RECURSIVE InSubtree(_, _, _)
InSubtree(W, id, k) ==
    \/ k = id
    \/ /\ k \in DOMAIN W.nodes
       /\ W.nodes[k].from # None
       /\ InSubtree(W, id, W.nodes[k].from)

\* C9: TreeWeave remove_node(id) with the active node anywhere in the removed
\* subtree (id itself or a descendant of id): afterwards `active` is the
\* parent of id and that parent's active flag is true, or `active` is None
\* if id was a root.
C9_RemoveMovesActiveToParent ==
    \A id \in DOMAIN dw.nodes :
        (dw.active # None /\ InSubtree(dw, id, dw.active)) =>
            LET r == D_remove_node(dw, id)
                parent == dw.nodes[id].from
            IN /\ r.ret
               /\ r.w.active = parent
               /\ parent # None => r.w.nodes[parent].active

(***************************************************************************)
(* Properties of single calls, stated over every reachable weave and every *)
(* input of the call.                                                      *)
(***************************************************************************)

\* The identifier lists a caller may pass, naming present or absent nodes
AnyIdLists == {s \in SeqsOver(Ids) : Len(s) <= 2}

\* The parent and child lists of a node handed to add_node: empty or naming
\* one present or absent node
ShortIdLists == {s \in SeqsOver(Ids) : Len(s) <= 1}

\* C10: DagWeave set_node_active_status(id, value, alternate) and
\* set_node_active_status_in_place(id, value): whenever the call returns
\* true, afterwards (id is in the active set) = value.
C10_SetActivePostcondition ==
    \A id \in Ids, value \in BOOLEAN :
        /\ \A alternate \in BOOLEAN :
               LET r == I_set_node_active_status(iw, id, value, alternate)
               IN r.ret => ((id \in r.w.active) = value)
        /\ LET r == I_set_node_active_status_in_place(iw, id, value)
           IN r.ret => ((id \in r.w.active) = value)

\* Atomic failure of the DagWeave mutators on the weave W
I_AtomicFailure(W) ==
    /\ \A id \in Ids, from, to \in ShortIdLists :
           LET r == I_add_node(W, IndependentNode(id, from, to, TRUE, TRUE, SnippetContents))
           IN ~r.ret => r.w = W
    /\ \A id \in Ids, n \in InputNodes :
           LET r == I_add_node(W, IndependentNode(id, <<>>, <<>>, n.active, n.bookmarked,
                                                  n.contents))
           IN ~r.ret => r.w = W
    /\ \A id \in Ids :
           /\ LET r == I_remove_node(W, id) IN ~r.ret => r.w = W
           /\ \A parents \in AnyIdLists :
                  LET r == I_move_node(W, id, parents) IN ~r.ret => r.w = W
           /\ \A value, alternate \in BOOLEAN :
                  LET r == I_set_node_active_status(W, id, value, alternate)
                  IN ~r.ret => r.w = W
           /\ \A value \in BOOLEAN :
                  /\ LET r == I_set_node_active_status_in_place(W, id, value)
                     IN ~r.ret => r.w = W
                  /\ LET r == I_set_node_bookmarked_status(W, id, value)
                     IN ~r.ret => r.w = W
           /\ \A order \in Perms(IF id \in DOMAIN W.nodes THEN W.nodes[id].to ELSE <<>>) :
                  LET r == I_sort_node_children_by(W, id, order) IN ~r.ret => r.w = W
           /\ \A at \in 0..MaxAt, new_id \in Ids :
                  LET r == I_split_node(W, id, at, new_id) IN ~r.ret => r.w = W
           /\ LET r == I_merge_with_parent(W, id) IN r.ret = None => r.w = W

\* Atomic failure of the TreeWeave mutators on the weave W (a TreeWeave has
\* no move_node)
D_AtomicFailure(W) ==
    /\ \A id \in Ids, from \in {None} \cup Ids, to \in ShortIdLists :
           LET r == D_add_node(W, DependentNode(id, from, to, TRUE, TRUE, SnippetContents))
           IN ~r.ret => r.w = W
    /\ \A id \in Ids, n \in InputNodes :
           LET r == D_add_node(W, DependentNode(id, None, <<>>, n.active, n.bookmarked,
                                                n.contents))
           IN ~r.ret => r.w = W
    /\ \A id \in Ids :
           /\ LET r == D_remove_node(W, id) IN ~r.ret => r.w = W
           /\ \A value, alternate \in BOOLEAN :
                  LET r == D_set_node_active_status(W, id, value, alternate)
                  IN ~r.ret => r.w = W
           /\ \A value \in BOOLEAN :
                  /\ LET r == D_set_node_active_status_in_place(W, id, value)
                     IN ~r.ret => r.w = W
                  /\ LET r == D_set_node_bookmarked_status(W, id, value)
                     IN ~r.ret => r.w = W
           /\ \A order \in Perms(IF id \in DOMAIN W.nodes THEN W.nodes[id].to ELSE <<>>) :
                  LET r == D_sort_node_children_by(W, id, order) IN ~r.ret => r.w = W
           /\ \A at \in 0..MaxAt, new_id \in Ids :
                  LET r == D_split_node(W, id, at, new_id) IN ~r.ret => r.w = W
           /\ LET r == D_merge_with_parent(W, id) IN r.ret = None => r.w = W

\* C8: Atomic failure.  For every core mutator of TreeWeave and DagWeave
\* (add_node, remove_node, move_node, set_node_active_status,
\* set_node_active_status_in_place, set_node_bookmarked_status,
\* sort_node_children_by, split_node, merge_with_parent), if the call
\* returns false/None then nodes, roots, bookmarked and the active store are
\* identical to the pre-call state.
C8_AtomicFailure ==
    /\ flavor = "IndependentWeave" => I_AtomicFailure(iw)
    /\ flavor = "DependentWeave" => D_AtomicFailure(dw)

\* C8 witness: a DagWeave in which merge_with_parent of a node with a single
\* parent and no siblings returns None because the contents do not merge,
\* and in which a split_node call returns false because the contents do not
\* split
C8_Witness ==
    /\ flavor = "IndependentWeave"
    /\ \E id \in DOMAIN iw.nodes :
           /\ Len(iw.nodes[id].from) = 1
           /\ Len(iw.nodes[iw.nodes[id].from[1]].to) = 1
           /\ NodeContent_merge(iw.nodes[iw.nodes[id].from[1]].contents,
                                iw.nodes[id].contents).tag = "Two"
           /\ I_merge_with_parent(iw, id).ret = None
    /\ \E id \in DOMAIN iw.nodes, at \in 1..MaxAt, new_id \in Ids \ DOMAIN iw.nodes :
           ~I_split_node(iw, id, at, new_id).ret

(***************************************************************************)
(* Properties of threads.                                                  *)
(***************************************************************************)

\* No node of W is its own descendant
IsAcyclic(W) ==
    \A k \in DOMAIN W.nodes :
        k \notin Descendants(W.nodes, Range(W.nodes[k].to), Cardinality(DOMAIN W.nodes))

\* C11: DagWeave get_thread_from(id), for any id present in an acyclic weave:
\* the result is non-empty, starts with id, each element is followed by one
\* of its own parents, and the last element is a root.
C11_ThreadFromEndsAtRoot ==
    IsAcyclic(iw) =>
        \A id \in DOMAIN iw.nodes :
            LET t == I_get_thread_from(iw, id) IN
            /\ t # <<>>
            /\ t[1] = id
            /\ \A i \in 1..(Len(t) - 1) :
                   t[i] \in DOMAIN iw.nodes /\ Contains(iw.nodes[t[i]].from, t[i + 1])
            /\ Contains(iw.roots, t[Len(t)])

\* The orders a1, ..., an of the whole active set in which a1 is a root and
\* each a(i+1) is a child of a(i)
ActiveChains(W) ==
    {s \in SeqsOver(W.active) :
        /\ Len(s) = Cardinality(W.active)
        /\ Len(s) >= 1
        /\ Contains(W.roots, s[1])
        /\ \A i \in 1..(Len(s) - 1) :
               s[i] \in DOMAIN W.nodes /\ Contains(W.nodes[s[i]].to, s[i + 1])}

\* C12: DagWeave get_active_thread: when the active set is a single chain
\* a1 -> a2 -> ... -> an (a1 an active root, each a(i+1) an active child of
\* a(i)), the result is exactly [an, ..., a2, a1].
C12_ActiveThreadIsReversedChain ==
    \A s \in ActiveChains(iw) : I_get_active_thread(iw) = Reverse(s)

\* C13: TreeWeave threads.  After any sequence of public operations,
\* get_thread_from(id) terminates and returns id followed by its successive
\* parents up to and including a root (empty if id is absent), and
\* get_active_thread returns get_thread_from(active), or the empty sequence
\* when active is None.
C13_TreeThreads ==
    /\ \A id \in Ids :
           LET t == D_get_thread_from(dw, id) IN
           IF id \notin DOMAIN dw.nodes THEN t = <<>>
           ELSE /\ t # <<>>
                /\ t[1] = id
                /\ \A i \in 1..(Len(t) - 1) : t[i + 1] = dw.nodes[t[i]].from
                /\ Contains(dw.roots, t[Len(t)])
                /\ dw.nodes[t[Len(t)]].from = None
                /\ Len(t) <= Cardinality(DOMAIN dw.nodes)
    /\ D_get_active_thread(dw) = IF dw.active = None THEN <<>>
                                 ELSE D_get_thread_from(dw, dw.active)

\* C13 witness: the active node is two levels below its root, so the active
\* thread has three elements
C13_Witness ==
    /\ flavor = "DependentWeave"
    /\ Len(D_get_active_thread(dw)) = 3

(***************************************************************************)
(* Properties of split_node followed by merge_with_parent.                 *)
(***************************************************************************)

\* The original statement of C14: TreeWeave split/merge identity.  If
\* split_node(id, at, new_id) returns true on a node with byte-snippet
\* contents, then merge_with_parent(new_id) immediately afterwards returns
\* Some(id) and the weave equals the weave before the split (same node ids,
\* contents, parent links, children order, roots, bookmarks and active).
C14_SplitMergeIdentity ==
    \A id \in DOMAIN dw.nodes, at \in 0..MaxAt, new_id \in NewIds(dw) :
        LET r == D_split_node(dw, id, at, new_id) IN
        (dw.nodes[id].contents.content.kind = "Snippet" /\ r.ret) =>
            LET m == D_merge_with_parent(r.w, new_id) IN
            /\ m.ret = id
            /\ m.w = dw

\* C14: TreeWeave split/merge identity up to the modified marker.  If
\* split_node(id, at, new_id) returns true on a node with byte-snippet
\* contents, then merge_with_parent(new_id) immediately afterwards returns
\* Some(id) and the weave equals the weave before the split (same node ids,
\* content payloads, metadata, parent links, children order, roots,
\* bookmarks and active), except that the contents of id are marked
\* modified.
C14_SplitMergeIdentityModuloModified ==
    \A id \in DOMAIN dw.nodes, at \in 0..MaxAt, new_id \in NewIds(dw) :
        LET r == D_split_node(dw, id, at, new_id) IN
        (dw.nodes[id].contents.content.kind = "Snippet" /\ r.ret) =>
            LET m == D_merge_with_parent(r.w, new_id) IN
            /\ m.ret = id
            /\ m.w = [dw EXCEPT !.nodes[id].contents.modified = TRUE]

\* C14 witness: a split succeeds on the active, unmodified node, which has a
\* child
C14_Witness ==
    /\ flavor = "DependentWeave"
    /\ \E id \in DOMAIN dw.nodes, new_id \in NewIds(dw) :
           /\ dw.nodes[id].to # <<>>
           /\ dw.active = id
           /\ ~dw.nodes[id].contents.modified
           /\ D_split_node(dw, id, 1, new_id).ret

(***************************************************************************)
(* Scenario S5, checked under SpecS5.                                      *)
(***************************************************************************)

\* A and B are distinct active roots of W and C, whose parents are A and B,
\* is inactive
S5Pre(W, A, B, C) ==
    /\ A # B
    /\ {A, B, C} \subseteq DOMAIN W.nodes
    /\ Contains(W.roots, A) /\ W.nodes[A].from = <<>>
    /\ Contains(W.roots, B) /\ W.nodes[B].from = <<>>
    /\ A \in W.active /\ W.nodes[A].active
    /\ B \in W.active /\ W.nodes[B].active
    /\ Range(W.nodes[C].from) = {A, B}
    /\ C \notin W.active /\ ~W.nodes[C].active

Unmark(c) ==
    IF c.kind = "Tokens"
    THEN Tokens([i \in 1..Len(c.data) |->
                    IF "modified" \in DOMAIN c.data[i]
                    THEN [c.data[i] EXCEPT !.modified = FALSE]
                    ELSE c.data[i]])
    ELSE c

\* The offset lies on a boundary between two tokens of the list
OnTokenBoundary(tokens, at) ==
    \E n \in 0..Len(tokens) : SumLen(SubSeq(tokens, 1, n)) = at

\* The original statement of C15: content merge is the left inverse of
\* split.  For every payload x (byte snippet or token list) and every offset
\* at, if split(x, at) = Two(l, r) then merge(l, r) = One(y) with y equal to
\* x (ignoring only the "modified" marker).
C15_MergeInvertsSplit ==
    content.stage = "merged" =>
        /\ content.merged.tag = "One"
        /\ Unmark(content.merged.value) = Unmark(content.x)

\* C15: content merge is the left inverse of split up to token boundaries.
\* For every payload x (byte snippet or token list) and every offset at, if
\* split(x, at) = Two(l, r) then merge(l, r) = One(y) with y of the kind and
\* of the bytes of x; y equals x (ignoring only the "modified" marker) when
\* x is a byte snippet or at falls on a token boundary, and otherwise y is x
\* with the token that contains offset at replaced by its two halves.
C15_MergeInvertsSplitOnBytes ==
    content.stage = "merged" =>
        LET x == content.x
            at == content.at
        IN /\ content.merged.tag = "One"
           /\ LET y == content.merged.value IN
              /\ y.kind = x.kind
              /\ InnerNodeContent_as_bytes(y) = InnerNodeContent_as_bytes(x)
              /\ (x.kind = "Snippet" \/ OnTokenBoundary(x.data, at))
                     => Unmark(y) = Unmark(x)
              /\ (x.kind = "Tokens" /\ ~OnTokenBoundary(x.data, at))
                     => \E n \in 1..Len(x.data) :
                            /\ Len(y.data) = Len(x.data) + 1
                            /\ SubSeq(Unmark(y).data, 1, n - 1) = SubSeq(Unmark(x).data, 1, n - 1)
                            /\ SubSeq(Unmark(y).data, n + 2, Len(y.data))
                                   = SubSeq(Unmark(x).data, n + 1, Len(x.data))
                            /\ y.data[n].bytes \o y.data[n + 1].bytes = x.data[n].bytes
                            /\ y.data[n].bytes # <<>> /\ y.data[n + 1].bytes # <<>>
                            /\ y.data[n].metadata = x.data[n].metadata
                            /\ y.data[n + 1].metadata = x.data[n].metadata

\* C15 witness: a list of two tokens has been split inside its second token
\* and merged again
C15_Witness ==
    /\ flavor = "InnerNodeContent"
    /\ content.stage = "merged"
    /\ content.x.kind = "Tokens"
    /\ Len(content.x.data) = 2
    /\ content.at > Len(content.x.data[1].bytes)
    /\ ~OnTokenBoundary(content.x.data, content.at)

(***************************************************************************)
(* Properties of the snapshot envelope, checked under SpecCodec.           *)
(***************************************************************************)

\* Byte i (counted from 0) of a u64, the least significant byte being byte 0
ByteOf(v, i) ==
    LET limb == v[4 - (i \div 2)] IN
    IF i % 2 = 0 THEN limb % 256 ELSE limb \div 256

\* C17: snapshot envelope round-trip.  For every version v and payload d,
\* to_bytes emits the 24-byte magic "VersionedTapestryWeave__", then v as 8
\* little-endian bytes, then d (total length 32 + |d|), and from_bytes on
\* that output yields exactly version v and data d.
C17_EnvelopeRoundTrip ==
    (codec.stage \in {"bytes", "parsed"} /\ codec.written.tag = "Some") =>
        LET v == codec.written.value.version
            d == codec.written.value.data
            b == codec.bytes
        IN /\ Len(b) = 32 + Len(d)
           /\ \A i \in 1..24 : b[i] = FORMAT_IDENTIFIER[i]
           /\ \A i \in 0..7 : b[25 + i] = ByteOf(v, i)
           /\ \A i \in 1..Len(d) : b[32 + i] = d[i]
           /\ codec.stage = "parsed" =>
                  /\ codec.parsed.tag = "Some"
                  /\ codec.parsed.value.version = v
                  /\ codec.parsed.value.data = d

\* C17 witness: an envelope with a version above 2^48 and a payload of two
\* bytes has been written and read back
C17_Witness ==
    /\ flavor = "VersionedBytes"
    /\ codec.stage = "parsed"
    /\ codec.written.tag = "Some"
    /\ codec.written.value.version[1] > 0
    /\ Len(codec.written.value.data) = 2

\* The input has at least 32 bytes and begins with the magic
WellFormed(b) == Len(b) >= 32 /\ \A i \in 1..24 : b[i] = FORMAT_IDENTIFIER[i]

\* C18: snapshot decode rejection.  VersionedWeave::from_bytes produces no
\* weave and does not panic for any input that is shorter than 32 bytes,
\* does not begin with the 24-byte magic, or carries a version other than 0;
\* envelope parsing accepts exactly the inputs of length >= 32 that begin
\* with the magic.
C18_DecodeRejection ==
    /\ codec.stage = "loaded" =>
           ((~WellFormed(codec.bytes)
                 \/ \E i \in 0..7 : codec.bytes[25 + i] # 0)
               => codec.loaded = "None")
    /\ codec.stage = "parsed" =>
           /\ codec.parsed.tag \in {"Some", "None"}
           /\ codec.parsed.tag = "Some" <=> WellFormed(codec.bytes)

\* C18 witness: VersionedWeave::from_bytes has rejected an input that begins
\* with the magic and is cut short inside the version
C18_Witness ==
    /\ flavor = "VersionedBytes"
    /\ codec.stage = "loaded"
    /\ codec.loaded = "None"
    /\ Len(codec.bytes) > 24
    /\ Len(codec.bytes) < 32
    /\ \A i \in 1..24 : codec.bytes[i] = FORMAT_IDENTIFIER[i]

(***************************************************************************)
(* Deduplication in TapestryWeave::add_node, checked under SpecTapestry.   *)
(***************************************************************************)

\* The nodes of W that will be siblings of the node to add and carry its
\* contents: the children of its parents, or the roots when it has no
\* parent, other than the nodes it adopts as children
DuplicateSiblings(W, node) ==
    {s \in DOMAIN W.nodes \ Range(node.to) :
        /\ W.nodes[s].contents = node.contents
        /\ IF node.from = <<>> THEN Contains(W.roots, s) /\ W.nodes[s].from = <<>>
           ELSE \E p \in Range(node.from) : Contains(W.nodes[p].to, s)}

\* The nodes of the active thread of W
ActiveThreadNodes(W) == {k \in DOMAIN W.nodes : W.nodes[k].active}

\* C20: dedup on add.  When the application-level add_node successfully
\* inserts a node whose contents are a duplicate of an existing sibling's
\* contents, the new node is removed again so the post-state has the same
\* node ids as the pre-state, and if the new node was flagged active then a
\* duplicate sibling is active afterwards, one that was on the previous
\* active thread if there is one.
C20_DedupOnAdd ==
    flavor = "TapestryWeave" =>
        \A id \in NewIds(iw), from \in IdLists(iw), to \in IdLists(iw), n \in InputNodes :
            LET node == IndependentNode(id, from, to, n.active, n.bookmarked, n.contents)
                r == T_add_node(TapestryWeave(iw, tw_active), node)
                post == r.t.weave
                duplicates == DuplicateSiblings(iw, node)
                onthread == duplicates \cap ActiveThreadNodes(iw)
            IN (KeepsAcyclic(iw, from, to) /\ r.ret /\ duplicates # {})
               => /\ DOMAIN post.nodes = DOMAIN iw.nodes
                  /\ n.active =>
                        /\ \E d \in duplicates : post.nodes[d].active
                        /\ onthread # {} => \E d \in onthread : post.nodes[d].active

(***************************************************************************)
(* Reconciliation of the active content (v0), checked under SpecV0.        *)
(***************************************************************************)

\* C16: reconcile postcondition.  For every reachable tree weave and every
\* target byte sequence, after set_active_content(target, attrs,
\* id_generator) returns, get_active_content() equals target byte for byte.
C16_ReconcilePostcondition ==
    (flavor = "v0_TapestryWeave" /\ Cardinality(GeneratorIds \ DOMAIN dw.nodes) >= 2) =>
        \A target \in ByteStrings, attrs \in MetadataInputs :
            LET r == v0_set_active_content(dw, target, attrs) IN
            /\ ~r.underflow
            /\ ~r.panic => v0_get_active_content(r.w) = target

\* C16 witness: a weave whose active thread is reshaped by a call that splits
\* a node of the thread and appends a new leaf after the left half
C16_Witness ==
    /\ flavor = "v0_TapestryWeave"
    /\ Cardinality(GeneratorIds \ DOMAIN dw.nodes) >= 2
    /\ \E target \in ByteStrings, attrs \in MetadataInputs :
          LET r == v0_set_active_content(dw, target, attrs) IN
          /\ ~r.panic
          /\ r.ret
          /\ Cardinality(DOMAIN r.w.nodes) = Cardinality(DOMAIN dw.nodes) + 2
          /\ Len(L_get_active_thread(r.w)) >= 2
          /\ v0_get_active_content(r.w) = target

(***************************************************************************)
(* IndependentWeave::validate, the read-only audit of the DAG weave.  Its  *)
(* outcome is Some(boolean) or a panic of the call.                        *)
(***************************************************************************)

RECURSIVE build_path(_, _, _, _)
RECURSIVE BuildPaths(_, _, _, _, _)

\* build_path: pushes the node on threads[index] and follows its active
\* children, the first one on the same thread and every later one on a clone
\* of threads[index] as it stands at that moment; false if the node is absent
build_path(W, node, threads, index) ==
    IF node \in DOMAIN W.nodes
    THEN BuildPaths(W, SelectSeq(W.nodes[node].to, LAMBDA c : c \in W.active), 1,
                    [threads EXCEPT ![index] = Append(@, W.nodes[node].id)], index)
    ELSE [ok |-> FALSE, threads |-> threads]

\* The loop of build_path over the active children, from the i-th one on
BuildPaths(W, active_children, i, threads, index) ==
    IF i > Len(active_children)
    THEN [ok |-> TRUE, threads |-> threads]
    ELSE LET r == IF i = 1
                  THEN build_path(W, active_children[i], threads, index)
                  ELSE build_path(W, active_children[i],
                                  Append(threads, threads[index]), Len(threads) + 1)
         IN  IF r.ok
             THEN BuildPaths(W, active_children, i + 1, r.threads, index)
             ELSE r

RECURSIVE BuildActiveRoots(_, _, _, _)
\* The loop of validate_active over the active roots, from the i-th one on
BuildActiveRoots(W, active_roots, i, threads) ==
    IF i > Len(active_roots)
    THEN [ok |-> TRUE, threads |-> threads]
    ELSE LET r == build_path(W, active_roots[i], Append(threads, <<>>), Len(threads) + 1)
         IN  IF r.ok
             THEN BuildActiveRoots(W, active_roots, i + 1, r.threads)
             ELSE r

\* validate_active: `longest` is the first thread of the greatest length, and
\* swap_remove panics when there is no thread, that is, when no root is active
validate_active(W) ==
    LET r == BuildActiveRoots(W, SelectSeq(W.roots, LAMBDA k : k \in W.active), 1, <<>>)
        longest == CHOOSE i \in DOMAIN r.threads :
                       /\ \A j \in DOMAIN r.threads : Len(r.threads[j]) <= Len(r.threads[i])
                       /\ \A j \in 1..(i - 1) : Len(r.threads[j]) < Len(r.threads[i])
    IN  IF ~r.ok THEN Some(FALSE)
        ELSE IF r.threads = <<>> THEN Panic
        ELSE Some(Range(r.threads[longest]) \subseteq W.active)

\* The per-node conjuncts of validate
ValidateNode(W, key) ==
    LET value == W.nodes[key]
    IN  /\ IndependentNode_validate(value)
        /\ value.id = key
        /\ Range(value.from) \subseteq DOMAIN W.nodes
        /\ Range(value.to) \subseteq DOMAIN W.nodes
        /\ (value.from = <<>>) = Contains(W.roots, key)
        /\ value.active = (key \in W.active)
        /\ value.bookmarked = Contains(W.bookmarked, key)
        /\ \A v \in Range(value.from) : Contains(W.nodes[v].to, key)
        /\ \A v \in Range(value.to) : Contains(W.nodes[v].from, key)
        /\ (value.active /\ value.from # <<>>)
               => Range(value.from) \cap W.active # {}

\* validate: a conjunction evaluated left to right, so validate_active runs
\* only when every root is a key of nodes
I_validate(W) ==
    IF ~(Range(W.roots) \subseteq DOMAIN W.nodes)
    THEN Some(FALSE)
    ELSE LET a == validate_active(W)
         IN  IF a.tag = "Panic" THEN Panic
             ELSE Some(/\ a.value
                       /\ W.active \subseteq DOMAIN W.nodes
                       /\ Range(W.bookmarked) \subseteq DOMAIN W.nodes
                       /\ \A key \in DOMAIN W.nodes : ValidateNode(W, key))

\* Weave invariants 1-6 and 8 on a DAG weave: referential integrity, node
\* self-consistency, edge symmetry, root membership, flag consistency and the
\* active-path invariant (at most one active child, and at most one active
\* parent, which exists unless the node is a root)
WeaveInvariants(W) ==
    /\ Range(W.roots) \subseteq DOMAIN W.nodes
    /\ Range(W.bookmarked) \subseteq DOMAIN W.nodes
    /\ W.active \subseteq DOMAIN W.nodes
    /\ \A k \in DOMAIN W.nodes :
           /\ Range(W.nodes[k].from) \subseteq DOMAIN W.nodes
           /\ Range(W.nodes[k].to) \subseteq DOMAIN W.nodes
           /\ IndependentNode_validate(W.nodes[k])
           /\ W.nodes[k].id = k
           /\ Contains(W.roots, k) <=> (W.nodes[k].from = <<>>)
           /\ W.nodes[k].active <=> (k \in W.active)
           /\ W.nodes[k].bookmarked <=> Contains(W.bookmarked, k)
    /\ \A a, b \in DOMAIN W.nodes :
           Contains(W.nodes[a].to, b) <=> Contains(W.nodes[b].from, a)
    /\ \A k \in W.active \cap DOMAIN W.nodes :
           /\ Cardinality(Range(W.nodes[k].to) \cap W.active) <= 1
           /\ Cardinality(Range(W.nodes[k].from) \cap W.active) <= 1
           /\ W.nodes[k].from # <<>> => Range(W.nodes[k].from) \cap W.active # {}

\* C21: DagWeave validate() returns a boolean without panicking on every
\* weave, and returns true on every weave that satisfies the weave
\* invariants, the empty weave and the weaves without an active root included.
C21_ValidateTotal ==
    /\ I_validate(iw).tag = "Some"
    /\ WeaveInvariants(iw) => I_validate(iw) = Some(TRUE)

\* C22: DagWeave validate() rechecks the active-path invariant: it returns
\* false on every weave in which some active node has two or more active
\* children.
C22_ValidateRejectsForks ==
    (\E k \in iw.active \cap DOMAIN iw.nodes : Cardinality(ActiveChildren(iw, k)) >= 2)
        => I_validate(iw) = Some(FALSE)

(***************************************************************************)
(* Properties of DependentWeave::add_node, checked under SpecTree.         *)
(***************************************************************************)

\* The children lists offered to add_node: none, or one id
ChildInputs == {<<>>} \cup {<<c>> : c \in Ids}

\* C23: TreeWeave add_node(n) returns false exactly when n.id is already
\* present, or n violates its local invariants (its parent equals its own id,
\* or its children contain its id or its parent), or n.children is non-empty,
\* or n.parent is set but absent from nodes; otherwise it returns true and n
\* is in nodes.
C23_AddNodeFailure ==
    \A id \in Ids, from \in {None} \cup Ids, to \in ChildInputs, n \in InputNodes :
        LET node == DependentNode(id, from, to, n.active, n.bookmarked, n.contents)
            r == D_add_node(dw, node)
        IN  /\ ~r.ret <=> \/ id \in DOMAIN dw.nodes
                          \/ from = id
                          \/ Contains(to, id)
                          \/ from # None /\ Contains(to, from)
                          \/ to # <<>>
                          \/ from # None /\ from \notin DOMAIN dw.nodes
            /\ r.ret => id \in DOMAIN r.w.nodes /\ r.w.nodes[id] = node

\* C23 witness: a weave holding a node that add_node linked under a parent,
\* on which add_node refuses a new node that lists a child, refuses a new node
\* whose parent is its own (absent) id, refuses an id that is present, and
\* accepts a new node under a present parent
C23_Witness ==
    /\ \E k \in DOMAIN dw.nodes : dw.nodes[k].from # None
    /\ \E id \in Ids \ DOMAIN dw.nodes, k \in DOMAIN dw.nodes :
           /\ ~D_add_node(dw, DependentNode(id, None, <<k>>, FALSE, FALSE, SnippetContents)).ret
           /\ ~D_add_node(dw, DependentNode(id, id, <<>>, FALSE, FALSE, SnippetContents)).ret
           /\ ~D_add_node(dw, DependentNode(k, None, <<>>, FALSE, FALSE, SnippetContents)).ret
           /\ D_add_node(dw, DependentNode(id, k, <<>>, FALSE, FALSE, SnippetContents)).ret

\* C24: TreeWeave add_node success with n.active = true: afterwards active is
\* Some(n.id), the previously active node has active = false, n.id is the
\* last element of its parent's children (or of roots), and get_active_thread
\* starts with n.id followed by its parent chain.
C24_AddActiveNode ==
    \A id \in Ids, from \in {None} \cup Ids, n \in InputNodes :
        LET r == D_add_node(dw, DependentNode(id, from, <<>>, TRUE, n.bookmarked, n.contents))
            siblings == IF from = None THEN r.w.roots ELSE r.w.nodes[from].to
            thread == D_get_active_thread(r.w)
        IN  r.ret =>
                /\ r.w.active = id
                /\ dw.active # None => ~r.w.nodes[dw.active].active
                /\ siblings # <<>> /\ siblings[Len(siblings)] = id
                /\ thread = <<id>> \o D_get_thread_from(dw, from)
                /\ \A i \in 1..(Len(thread) - 1) : thread[i + 1] = r.w.nodes[thread[i]].from
                /\ r.w.nodes[thread[Len(thread)]].from = None

\* C24 witness: scenario S1.  Node 2 was added active under the root 1, which
\* has lost its flag, and the active thread is [2, 1]; a further active node
\* can be added under node 2
C24_Witness ==
    /\ DOMAIN dw.nodes = {1, 2}
    /\ dw.nodes[2].from = 1
    /\ dw.active = 2
    /\ ~dw.nodes[1].active
    /\ D_get_active_thread(dw) = <<2, 1>>
    /\ D_add_node(dw, DependentNode(3, 2, <<>>, TRUE, FALSE, SnippetContents)).ret

(***************************************************************************)
(* The frame of `active` in DependentWeave, checked under SpecTree.        *)
(***************************************************************************)

\* The weaves that one call of set_node_bookmarked_status,
\* sort_node_children_by, sort_roots_by, split_node, or add_node with the
\* active flag clear can leave
FrameResults(W) ==
    {D_set_node_bookmarked_status(W, id, value).w : id \in Ids, value \in BOOLEAN}
    \cup UNION {{D_sort_node_children_by(W, id, order).w :
                     order \in SortInputs(W, W.nodes[id].to)} : id \in DOMAIN W.nodes}
    \cup {D_sort_roots_by(W, order).w : order \in SortInputs(W, W.roots)}
    \cup {D_split_node(W, id, at, new_id).w : id \in Ids, at \in 0..MaxAt, new_id \in Ids}
    \cup {D_add_node(W, DependentNode(id, from, <<>>, FALSE, n.bookmarked, n.contents)).w :
              id \in Ids, from \in {None} \cup Ids, n \in InputNodes}

\* The original statement of C25: merge_with_parent never changes `active`
C25_ActiveFrame ==
    /\ \A w \in FrameResults(dw) : w.active = dw.active
    /\ \A id \in Ids : D_merge_with_parent(dw, id).w.active = dw.active

\* C25: TreeWeave active frame.  Only add_node (with the active flag set),
\* set_node_active_status(_in_place) and remove_node change `active`, except
\* that merge_with_parent of the active node moves `active` to the surviving
\* parent; set_node_bookmarked_status, sort_node_children_by, sort_roots_by,
\* split_node, and every other call of merge_with_parent leave `active`
\* unchanged.
C25_ActiveFrameExceptMerge ==
    /\ \A w \in FrameResults(dw) : w.active = dw.active
    /\ \A id \in Ids :
           LET m == D_merge_with_parent(dw, id)
           IN  m.w.active = IF m.ret # None /\ dw.active = id THEN m.ret ELSE dw.active

\* C25 witness: a weave with a bookmarked node whose active node can be
\* merged into its parent and can also be split
C25_Witness ==
    /\ dw.active # None
    /\ D_merge_with_parent(dw, dw.active).ret # None
    /\ \E at \in 0..MaxAt, new_id \in NewIds(dw) : D_split_node(dw, dw.active, at, new_id).ret
    /\ dw.bookmarked # <<>>

(***************************************************************************)
(* DependentWeave::merge_with_parent, checked under SpecTree.              *)
(***************************************************************************)

\* The conditions under which merge_with_parent(id) is to succeed on W
Mergeable(W, id) ==
    /\ id \in DOMAIN W.nodes
    /\ W.nodes[id].from # None
    /\ Len(W.nodes[W.nodes[id].from].to) = 1
    /\ NodeContent_merge(W.nodes[W.nodes[id].from].contents, W.nodes[id].contents).tag = "One"

\* C26: TreeWeave merge_with_parent(id) returns Some(parent id) exactly when
\* the node exists, has a parent, the parent has exactly one child, and the
\* merge of the two contents returns One; otherwise it returns None.  On
\* success the node id is gone, the parent holds the merged contents and the
\* node's children (each child's parent rewritten), the parent is active if
\* the node was, and the node's id is no longer bookmarked.
C26_MergeWithParent ==
    \A id \in Ids :
        LET m == D_merge_with_parent(dw, id) IN
        IF Mergeable(dw, id)
        THEN LET node == dw.nodes[id]
                 p == node.from
             IN  /\ m.ret = p
                 /\ id \notin DOMAIN m.w.nodes
                 /\ m.w.nodes[p].contents =
                        NodeContent_merge(dw.nodes[p].contents, node.contents).value
                 /\ m.w.nodes[p].to = node.to
                 /\ \A c \in Range(node.to) : m.w.nodes[c].from = p
                 /\ node.active => m.w.nodes[p].active /\ m.w.active = p
                 /\ ~Contains(m.w.bookmarked, id)
        ELSE m.ret = None

\* C26 witness: the active node has a child and can be merged into its
\* parent, while its parent, a root, cannot be merged
C26_Witness ==
    \E id \in DOMAIN dw.nodes :
        /\ Mergeable(dw, id)
        /\ dw.nodes[id].active
        /\ dw.nodes[id].to # <<>>
        /\ D_merge_with_parent(dw, id).ret = dw.nodes[id].from
        /\ D_merge_with_parent(dw, dw.nodes[id].from).ret = None

(***************************************************************************)
(* IndependentWeave::remove_node, checked under SpecDag.                   *)
(***************************************************************************)

\* The nodes that a removal starting with the set R takes with it: a child of
\* a removed node goes when every one of its parents has gone
RECURSIVE Cascade(_, _)
Cascade(W, R) ==
    LET more == {c \in DOMAIN W.nodes \ R :
                     /\ \E k \in R : Contains(W.nodes[k].to, c)
                     /\ Range(W.nodes[c].from) \subseteq R}
    IN  IF more = {} THEN R ELSE Cascade(W, R \cup more)

\* C27: DagWeave remove_node(id), partial cascade.  id is removed from nodes
\* and from every parent's children; each child keeps its remaining parents
\* with id dropped; a child is removed (recursively) exactly when its parents
\* set becomes empty; nodes that are not descendants of id are never removed.
C27_RemovePartialCascade ==
    \A id \in DOMAIN iw.nodes :
        LET r == I_remove_node(iw, id)
            removed == DOMAIN iw.nodes \ DOMAIN r.w.nodes
        IN  /\ r.ret
            /\ id \in removed
            /\ \A k \in DOMAIN r.w.nodes : ~Contains(r.w.nodes[k].to, id)
            /\ \A c \in Range(iw.nodes[id].to) \cap DOMAIN r.w.nodes :
                   r.w.nodes[c].from =
                       SelectSeq(iw.nodes[c].from, LAMBDA p : p \notin removed)
            /\ removed = Cascade(iw, {id})
            /\ removed \subseteq
                   Descendants(iw.nodes, {id}, Cardinality(DOMAIN iw.nodes))

\* C27 witness: removing one node leaves its child, which has a second
\* parent, in the weave, and removing another node takes its child and its
\* grandchild with it
C27_Witness ==
    /\ \E id \in DOMAIN iw.nodes :
           \E c \in Range(iw.nodes[id].to) :
               /\ c \in DOMAIN I_remove_node(iw, id).w.nodes
               /\ I_remove_node(iw, id).w.nodes[c].from # <<>>
    /\ \E id \in DOMAIN iw.nodes :
           \E c \in Range(iw.nodes[id].to) :
               \E d \in Range(iw.nodes[c].to) :
                   DOMAIN I_remove_node(iw, id).w.nodes \cap {id, c, d} = {}

(***************************************************************************)
(* IndependentWeave::move_node, checked under SpecDag.                     *)
(***************************************************************************)

\* The parent slices offered to move_node: up to two different ids, present
\* or not
MoveInputs == {s \in SeqsOver(Ids) : Len(s) <= 2}

\* C28: DagWeave move_node(id, new_parents) returns false exactly when id is
\* absent, some element of new_parents is absent, new_parents contains id, or
\* new_parents contains one of id's current children; otherwise it returns
\* true.
C28_MoveNodeFailure ==
    \A id \in Ids, new_parents \in MoveInputs :
        ~I_move_node(iw, id, new_parents).ret <=>
            \/ id \notin DOMAIN iw.nodes
            \/ \E p \in Range(new_parents) : p \notin DOMAIN iw.nodes
            \/ Contains(new_parents, id)
            \/ \E c \in Range(iw.nodes[id].to) : Contains(new_parents, c)

\* C28 witness: a node with a child, for which move_node refuses its own id,
\* its child and an absent id as the new parent, while the child can be moved
\* to the roots
C28_Witness ==
    \E id \in DOMAIN iw.nodes, absent \in Ids \ DOMAIN iw.nodes :
        /\ iw.nodes[id].to # <<>>
        /\ ~I_move_node(iw, id, <<id>>).ret
        /\ ~I_move_node(iw, id, <<iw.nodes[id].to[1]>>).ret
        /\ ~I_move_node(iw, id, <<absent>>).ret
        /\ I_move_node(iw, iw.nodes[id].to[1], <<>>).ret

\* C29: DagWeave move_node success effects.  After a successful
\* move_node(id, new_parents): parents(id) equals new_parents in the given
\* order, id is in children(p) iff p is in new_parents, id is in roots iff
\* new_parents is empty, and if id is active and no new parent was active
\* before the call then the first element of new_parents is active afterwards.
C29_MoveNodeEffects ==
    \A id \in Ids, new_parents \in MoveInputs :
        LET r == I_move_node(iw, id, new_parents) IN
        r.ret =>
            /\ r.w.nodes[id].from = new_parents
            /\ \A p \in DOMAIN r.w.nodes :
                   Contains(r.w.nodes[p].to, id) <=> Contains(new_parents, p)
            /\ Contains(r.w.roots, id) <=> (new_parents = <<>>)
            /\ (/\ iw.nodes[id].active
                /\ new_parents # <<>>
                /\ \A p \in Range(new_parents) : ~iw.nodes[p].active)
                   => /\ r.w.nodes[new_parents[1]].active
                      /\ new_parents[1] \in r.w.active

\* C29 witness: an active node can be moved under two nodes that are not its
\* parents, neither of which is active
C29_Witness ==
    \E id \in DOMAIN iw.nodes, new_parents \in MoveInputs :
        /\ iw.nodes[id].active
        /\ Len(new_parents) = 2
        /\ Range(new_parents) \cap Range(iw.nodes[id].from) = {}
        /\ \A p \in Range(new_parents) : p \in DOMAIN iw.nodes /\ ~iw.nodes[p].active
        /\ I_move_node(iw, id, new_parents).ret

(***************************************************************************)
(* IndependentWeave::set_node_active_status, checked under SpecDag.        *)
(***************************************************************************)

\* The call set_node_active_status(id, TRUE, alternate) meets a first active
\* child that it is to deactivate: one with a single parent when alternate is
\* false, one with several parents when alternate is true
PullsUp(W, id, alternate) ==
    /\ id \in DOMAIN W.nodes
    /\ FirstActiveChild(W, id) # None
    /\ \/ ~alternate /\ Len(W.nodes[FirstActiveChild(W, id)].from) = 1
       \/ alternate /\ Len(W.nodes[FirstActiveChild(W, id)].from) > 1

\* C30: DagWeave pull-up.  set_node_active_status(id, true, alternate) on a
\* node whose first active child c has exactly one parent (alternate false)
\* or more than one parent (alternate true) ends with id active and c
\* inactive; in every other case the call has exactly the effect of
\* set_node_active_status_in_place(id, value).
C30_PullUp ==
    \A id \in Ids, value \in BOOLEAN, alternate \in BOOLEAN :
        LET r == I_set_node_active_status(iw, id, value, alternate) IN
        IF value /\ PullsUp(iw, id, alternate)
        THEN LET c == FirstActiveChild(iw, id)
             IN  /\ r.w.nodes[id].active /\ id \in r.w.active
                 /\ ~r.w.nodes[c].active /\ c \notin r.w.active
        ELSE r = I_set_node_active_status_in_place(iw, id, value)

(***************************************************************************)
(* The deactivation cascade of IndependentWeave, checked under SpecDag.    *)
(***************************************************************************)

\* The nodes that deactivating the set D takes with it: an active child of a
\* deactivated node goes when no parent of it is left active
RECURSIVE Deactivated(_, _)
Deactivated(W, D) ==
    LET more == {c \in DOMAIN W.nodes \ D :
                     /\ c \in W.active
                     /\ \E k \in D : Contains(W.nodes[k].to, c)
                     /\ Range(W.nodes[c].from) \cap (W.active \ D) = {}}
    IN  IF more = {} THEN D ELSE Deactivated(W, D \cup more)

\* The nodes from which id is reachable along child links, id excluded
Ancestors(W, id) ==
    {a \in DOMAIN W.nodes \ {id} :
         id \in Descendants(W.nodes, {a}, Cardinality(DOMAIN W.nodes))}

C32_SplitNodeFlags ==
    \A id \in DOMAIN iw.nodes, at \in 0..MaxAt, new_id \in Ids :
        LET r == I_split_node(iw, id, at, new_id) IN
        r.ret =>
            /\ r.w.nodes[id].active = iw.nodes[id].active
            /\ r.w.nodes[id].bookmarked = iw.nodes[id].bookmarked
            /\ ~r.w.nodes[new_id].active
            /\ new_id \notin r.w.active
            /\ ~r.w.nodes[new_id].bookmarked
            /\ ~Contains(r.w.bookmarked, new_id)

(***************************************************************************)
(* InnerNodeContent::split on token lists, checked under SpecContent.      *)
(***************************************************************************)

\* The lists left and right hold the tokens of the list `tokens`, each one
\* whole in one of the two lists, or one of them as two halves with the
\* token's metadata, the first ending left and the second starting right
TokensKept(tokens, left, right) ==
    \/ \E k \in 0..Len(tokens) :
           /\ left = SubSeq(tokens, 1, k)
           /\ right = SubSeq(tokens, k + 1, Len(tokens))
    \/ \E k \in 1..Len(tokens) :
           /\ Len(left) = k /\ Len(right) = Len(tokens) - k + 1
           /\ SubSeq(left, 1, k - 1) = SubSeq(tokens, 1, k - 1)
           /\ Tail(right) = SubSeq(tokens, k + 1, Len(tokens))
           /\ left[k].bytes # <<>> /\ right[1].bytes # <<>>
           /\ left[k].bytes \o right[1].bytes = tokens[k].bytes
           /\ left[k].metadata = tokens[k].metadata
           /\ right[1].metadata = tokens[k].metadata

\* C33: token-list split.  For a token list with total byte length L and
\* 0 < at < L, split returns Two(left, right) where the concatenated bytes of
\* left are exactly the first `at` bytes, the concatenated bytes of right are
\* the remaining L - at bytes, both lists are non-empty, and every original
\* token appears whole in one list or as two halves (one ending left, one
\* starting right); for at = 0 or at >= L it returns One with the input
\* unchanged.
C33_TokenListSplit ==
    (content.stage \in {"split", "merged"} /\ content.x.kind = "Tokens") =>
        LET tokens == content.x.data
            L == SumLen(tokens)
            at == content.at
            r == content.split
        IN  IF 0 < at /\ at < L
            THEN /\ r.tag = "Two"
                 /\ r.left.kind = "Tokens" /\ r.right.kind = "Tokens"
                 /\ FlatBytes(r.left.data) = SubSeq(FlatBytes(tokens), 1, at)
                 /\ FlatBytes(r.right.data) = SubSeq(FlatBytes(tokens), at + 1, L)
                 /\ r.left.data # <<>> /\ r.right.data # <<>>
                 /\ TokensKept(tokens, r.left.data, r.right.data)
            ELSE r = One(content.x)

\* C33 witness: a list of a two-byte token and an empty token has been split
\* inside its first token, which gives one token on the left and two on the
\* right
C33_Witness ==
    /\ content.stage = "split"
    /\ content.x.kind = "Tokens"
    /\ Len(content.x.data) = 2
    /\ Len(content.x.data[1].bytes) = 2
    /\ content.x.data[2].bytes = <<>>
    /\ content.at = 1
    /\ content.split.tag = "Two"
    /\ Len(content.split.left.data) = 1
    /\ Len(content.split.right.data) = 2

(***************************************************************************)
(* Failure of the application-level mutators, checked under SpecV0 and     *)
(* SpecTapestry.                                                           *)
(***************************************************************************)

C35_SplitNodeFailureKeepsWeave ==
    flavor = "TapestryWeave" =>
        \A id \in Ids, at \in 0..MaxAt, duplicate \in BOOLEAN :
            \A from \in Ids \ DOMAIN iw.nodes :
                \A to \in Ids \ (DOMAIN iw.nodes \cup {from}) :
                    LET r == T_split_node(TapestryWeave(iw, tw_active), id, at, duplicate,
                                          from, to)
                    IN  r.ret = NoneValue => r.t.weave = iw

\* C36: set_active_content never removes a node that was not on the active
\* thread when the call started: every such node, the inactive children of the
\* last matched node among them, is still in the weave with its contents when
\* the call returns.
C36_ReconcileKeepsOtherBranches ==
    flavor = "v0_TapestryWeave" =>
        \A value \in ReconcileInputs, metadata \in MetadataInputs :
            LET r == v0_set_active_content(dw, value, metadata)
            IN  (Cardinality(GeneratorIds \ DOMAIN dw.nodes) >= 2 /\ ~r.panic /\ ~r.underflow) =>
                    \A id \in DOMAIN dw.nodes \ Range(L_get_active_thread(dw)) :
                        /\ id \in DOMAIN r.w.nodes
                        /\ r.w.nodes[id].contents = dw.nodes[id].contents

(***************************************************************************)
(* Properties that the specification leaves implicit.                      *)
(***************************************************************************)

\* C37: after any sequence of public operations of the DAG weave (move_node
\* to an empty parent list included), at most one root is active.  A root is
\* counted when it is in the list of roots and has no parent, and when both
\* its flag and the active set say that it is active.
C37_SingleActiveRoot ==
    flavor = "IndependentWeave" =>
        Cardinality({id \in Range(iw.roots) \cap DOMAIN iw.nodes :
                        iw.nodes[id].from = <<>> /\ id \in iw.active /\ iw.nodes[id].active}) <= 1

(***************************************************************************)
(* From<DependentWeave> for IndependentWeave: the conversion of a tree     *)
(* weave into a DAG weave, checked under SpecTree.                         *)
(***************************************************************************)

\* DependentWeave::validate
D_validate(W) ==
    /\ Range(W.roots) \subseteq DOMAIN W.nodes
    /\ (W.active # None => W.active \in DOMAIN W.nodes)
    /\ Range(W.bookmarked) \subseteq DOMAIN W.nodes
    /\ \A key \in DOMAIN W.nodes :
          LET value == W.nodes[key]
          IN  /\ DependentNode_validate(value)
              /\ value.id = key
              /\ (value.from # None => value.from \in DOMAIN W.nodes)
              /\ Range(value.to) \subseteq DOMAIN W.nodes
              /\ (value.from = None) = Contains(W.roots, key)
              /\ value.active = (W.active = key)
              /\ value.bookmarked = Contains(W.bookmarked, key)
              /\ (value.from # None => Contains(W.nodes[value.from].to, key))
              /\ \A v \in Range(value.to) : W.nodes[v].from = key

RECURSIVE add_node_identifiers(_, _, _)
RECURSIVE AddChildIdentifiers(_, _, _, _)
\* add_node_identifiers: a node whose parent is already listed is listed,
\* followed by its children in their order (identifier_set holds the ids of
\* `identifiers`)
add_node_identifiers(W, id, identifiers) ==
    IF /\ id \in DOMAIN W.nodes
       /\ (W.nodes[id].from # None => Contains(identifiers, W.nodes[id].from))
    THEN AddChildIdentifiers(W, W.nodes[id].to, 1, Append(identifiers, id))
    ELSE identifiers

\* for child in node.to() { add_node_identifiers(nodes, child, ...) }, also
\* the loop over the roots
AddChildIdentifiers(W, children, i, identifiers) ==
    IF i > Len(children) THEN identifiers
    ELSE AddChildIdentifiers(W, children, i + 1,
                             add_node_identifiers(W, children[i], identifiers))

\* get_ordered_node_identifiers of the tree weave: the roots in their order,
\* each followed by its descendants
D_get_ordered_node_identifiers(W) == AddChildIdentifiers(W, W.roots, 1, <<>>)

RECURSIVE FromLoop(_, _, _, _)
\* The loop of the conversion over the ordered identifiers from the i-th one
\* on: assert!(output.add_node(..)) ends the conversion with a panic when
\* add_node refuses the node
FromLoop(value, identifiers, i, output) ==
    IF i > Len(identifiers) THEN Some(output)
    ELSE LET node == value.nodes[identifiers[i]]
             r == I_add_node(output,
                             IndependentNode(node.id,
                                             IF node.from = None THEN <<>> ELSE <<node.from>>,
                                             node.to, node.active, node.bookmarked,
                                             node.contents))
         IN  IF r.ret THEN FromLoop(value, identifiers, i + 1, r.w) ELSE Panic

\* From<DependentWeave>::from
From_DependentWeave(value) ==
    FromLoop(value, D_get_ordered_node_identifiers(value), 1, EmptyWeave)

\* C38: converting any valid tree weave with From<DependentWeave> completes
\* without panicking and yields a DAG weave with the same node ids, where each
\* node has the same children, its parents are exactly its tree parent (or
\* none), and its active and bookmarked flags and its contents are preserved.
C38_TreeToDagConversion ==
    (flavor = "DependentWeave" /\ D_validate(dw)) =>
        LET r == From_DependentWeave(dw)
        IN  /\ r.tag = "Some"
            /\ DOMAIN r.value.nodes = DOMAIN dw.nodes
            /\ \A id \in DOMAIN dw.nodes :
                  /\ r.value.nodes[id].to = dw.nodes[id].to
                  /\ r.value.nodes[id].from
                        = (IF dw.nodes[id].from = None THEN <<>> ELSE <<dw.nodes[id].from>>)
                  /\ r.value.nodes[id].active = dw.nodes[id].active
                  /\ r.value.nodes[id].bookmarked = dw.nodes[id].bookmarked
                  /\ r.value.nodes[id].contents = dw.nodes[id].contents

(***************************************************************************)
(* is_mergeable_with_parent against merge_with_parent, checked under       *)
(* SpecApplication.                                                        *)
(***************************************************************************)

\* C39: is_mergeable_with_parent agrees with merge_with_parent: for every
\* weave state and id, is_mergeable_with_parent(id) returns true iff
\* merge_with_parent(id) called on that same state succeeds (the tree weave
\* returns Some(parent), the application wrapper returns true).
C39_MergeableAgreesWithMerge ==
    /\ flavor = "TapestryWeave" =>
          \A id \in Ids :
             T_is_mergeable_with_parent(TapestryWeave(iw, tw_active), id)
                = T_merge_with_parent(TapestryWeave(iw, tw_active), id).ret
    /\ flavor = "v0_TapestryWeave" =>
          \A id \in Ids :
             /\ v0_is_mergeable_with_parent(dw, id) = v0_merge_with_parent(dw, id).ret
             /\ v0_is_mergeable_with_parent(dw, id) = (L_merge_with_parent(dw, id).ret # None)

\* A v1 weave where one node can be merged into its parent and another node,
\* the only child of its parent, cannot because the payloads do not merge
C39_Witness ==
    /\ flavor = "TapestryWeave"
    /\ \E id \in DOMAIN iw.nodes, other \in DOMAIN iw.nodes :
          /\ T_is_mergeable_with_parent(TapestryWeave(iw, tw_active), id)
          /\ T_merge_with_parent(TapestryWeave(iw, tw_active), id).ret
          /\ Len(iw.nodes[other].from) = 1
          /\ iw.nodes[iw.nodes[other].from[1]].to = <<other>>
          /\ ~T_is_mergeable_with_parent(TapestryWeave(iw, tw_active), other)
          /\ ~T_merge_with_parent(TapestryWeave(iw, tw_active), other).ret

====
